---- MODULE Spec2Model ----
(***************************************************************************)
(* Model of the ShyMouse pointer engine (src/ShyMouse.js, primary class,   *)
(* lines 1-1734).                                                          *)
(*                                                                         *)
(* Numbers.  JavaScript doubles are modelled by integers:                  *)
(*   - attentionSpan and fatigueMultiplier in units of 1/Unit (1e-4);      *)
(*   - curve parameters (t, eased t, Bezier weights) in units of 1/TScale; *)
(*   - coordinates, distances and scroll offsets in whole pixels.          *)
(* Math.random() and the Gaussian draws are nondeterministic choices from  *)
(* small finite sets of representative values.                             *)
(***************************************************************************)
EXTENDS Integers, Sequences, FiniteSets, TLC

VARIABLES
    config,             \* this.config.{fatigueEnabled,fatigueThreshold,maxFatigue}
    actionCount,        \* this.config.actionCount
    attentionSpan,      \* this.config.attentionSpan   (1/Unit)
    fatigueMultiplier,  \* this.config.fatigueMultiplier (1/Unit)
    lastPos,            \* this.lastPos: Absent or Some(point)
    moveHistory,        \* this.moveHistory: the positions (time stamps left out)
    cachedViewport,     \* this.cachedViewport: Absent or Some(viewport)
    viewportCacheAge,   \* Date.now() - this.viewportCacheTime, in ms, saturating
    page,               \* the browser window: the viewport a driver read returns
    pc,                 \* position of the running public operation, or "idle"
    mv,                 \* locals of the running moveToPosition call
    driver,             \* what the operation has asked of page.mouse so far
    opsDone,            \* public operations started: pointer moves, click/scroll calls
    probe,              \* inputs/outputs of a direct call of one method
    call                \* locals of the running click / scrollToElement call

fatigueVars == <<actionCount, attentionSpan, fatigueMultiplier>>
motionVars == <<lastPos, moveHistory>>
cacheVars == <<cachedViewport, viewportCacheAge>>
vars == <<config, actionCount, attentionSpan, fatigueMultiplier, lastPos, moveHistory,
          cachedViewport, viewportCacheAge, page, pc, mv, driver, opsDone, probe, call>>

(***************************************************************************)
(* Arithmetic helpers                                                      *)
(***************************************************************************)
Unit == 10 ^ 4

Min(a, b) == IF a <= b THEN a ELSE b
Max(a, b) == IF a >= b THEN a ELSE b

\* Math.floor(a / b) for b > 0 (TLA+ \div already floors).
FloorDiv(a, b) == a \div b

\* Math.round(a / b) for b > 0: nearest integer, halves towards +infinity.
RoundDiv(a, b) == (2 * a + b) \div (2 * b)

\* clamp(value, min, max) == Math.max(min, Math.min(value, max))
clamp(value, lo, hi) == Max(lo, Min(value, hi))

(***************************************************************************)
(* Configuration (constructor options)                                     *)
(***************************************************************************)
DefaultConfig == [fatigueEnabled |-> TRUE, fatigueThreshold |-> 20, maxFatigue |-> 100]

\* Constructor options tried: the defaults, a low ceiling (so that the
\* exhaustion branch of applyFatigue is reachable) and fatigue switched off.
ConfigChoices ==
    { DefaultConfig,
      [fatigueEnabled |-> TRUE,  fatigueThreshold |-> 20, maxFatigue |-> 30],
      [fatigueEnabled |-> FALSE, fatigueThreshold |-> 20, maxFatigue |-> 100] }

minAttentionSpan == 8000

\* attentionSpan: 0.88 + Math.random() * 0.10  (constructor and reset)
InitialAttention == {8800, 9800}

(***************************************************************************)
(* Fatigue / attention state                                               *)
(***************************************************************************)
FatigueOf(ac, att, fm) ==
    [actionCount |-> ac, attentionSpan |-> att, fatigueMultiplier |-> fm]

\* applyFatigue, first branch: actionCount > maxFatigue forces a break.
exhaustionReset(f, cfg) ==
    IF f.actionCount > cfg.maxFatigue
    THEN FatigueOf(FloorDiv(cfg.fatigueThreshold * 8, 10),
                   Min(9600, f.attentionSpan + 800),
                   Unit)
    ELSE f

\* 1.0 + fatigueLevel * 0.4, fatigueLevel = excess / fatigueThreshold
excessMultiplier(excess, threshold) == Unit + FloorDiv(4000 * excess, threshold)

\* Math.round(baseValue * Math.min(1 + fatigueLevel * 0.018, 1.45)), exactly:
\* 1 + 0.018 * excess / threshold = (1000 threshold + 18 excess) / (1000 threshold)
scaledValueInverted(baseValue, excess, threshold) ==
    RoundDiv(baseValue * (1000 * threshold - 18 * excess), 1000 * threshold)

scaledValue(baseValue, excess, threshold) ==
    IF 18 * excess >= 450 * threshold
    THEN RoundDiv(baseValue * 145, 100)
    ELSE RoundDiv(baseValue * (1000 * threshold + 18 * excess), 1000 * threshold)

\* State left by applyFatigue(baseValue).
applyFatigueState(f, cfg) ==
    IF ~cfg.fatigueEnabled THEN f
    ELSE LET g == exhaustionReset(f, cfg) IN
         IF g.actionCount > cfg.fatigueThreshold
         THEN [g EXCEPT !.fatigueMultiplier =
                   excessMultiplier(g.actionCount - cfg.fatigueThreshold,
                                    cfg.fatigueThreshold)]
         ELSE g

\* Value returned by applyFatigue(baseValue).
applyFatigue(baseValue, f, cfg) ==
    IF ~cfg.fatigueEnabled THEN baseValue
    ELSE LET g == exhaustionReset(f, cfg) IN
         IF g.actionCount > cfg.fatigueThreshold
         THEN scaledValue(baseValue, g.actionCount - cfg.fatigueThreshold,
                          cfg.fatigueThreshold)
         ELSE baseValue

\* Recovery: attentionSpan = Math.min(0.96, attentionSpan + 0.04)
recoverAttentionUncapped(att) == att + 400
recoverAttention(att) == Min(9600, att + 400)

\* Recovery: fatigueMultiplier = Math.max(1.0, fatigueMultiplier * 0.85)
relaxMultiplierUnfloored(fm) == FloorDiv(fm * 85, 100)
relaxMultiplier(fm) == Max(Unit, FloorDiv(fm * 85, 100))

\* Math.floor(15 + Math.random() * 10)
RecoveryChoices == { 15, 24 }

\* Line 1665: the incremented actionCount is a multiple of 45.
recoveryDueAt90(n) == n % 90 = 0
recoveryDue(n) == n % 45 = 0

\* updateActionCount(); recovery is the amount drawn if recovery fires.
updateActionCount(f, recovery) ==
    LET n == f.actionCount + 1
        g == IF recoveryDue(n)
             THEN FatigueOf(Max(0, n - recovery),
                            recoverAttention(f.attentionSpan),
                            relaxMultiplier(f.fatigueMultiplier))
             ELSE [f EXCEPT !.actionCount = n]
    IN [g EXCEPT !.attentionSpan = Max(minAttentionSpan, g.attentionSpan - 8)]

\* The recovery amounts updateActionCount can draw in state f.
RecoveryDraws(f) == IF recoveryDue(f.actionCount + 1) THEN RecoveryChoices ELSE {15}

Fatigue == FatigueOf(actionCount, attentionSpan, fatigueMultiplier)

SetFatigue(f) ==
    /\ actionCount' = f.actionCount
    /\ attentionSpan' = f.attentionSpan
    /\ fatigueMultiplier' = f.fatigueMultiplier

(***************************************************************************)
(* Geometry and numeric helpers                                            *)
(***************************************************************************)
TScale == 10 ^ 3

Abs(a) == IF a < 0 THEN -a ELSE a

RECURSIVE SqrtSearch(_, _, _)
SqrtSearch(n, lo, hi) ==
    IF lo >= hi THEN lo
    ELSE LET mid == (lo + hi + 1) \div 2 IN
         IF mid * mid <= n THEN SqrtSearch(n, mid, hi) ELSE SqrtSearch(n, lo, mid - 1)

\* Math.sqrt, to whole pixels (floor); arguments stay below 4096^2.
Sqrt(n) == SqrtSearch(n, 0, 4096)

\* Math.sqrt in sixteenths of a pixel; arguments stay below 2^23.
Sqrt16(n) == SqrtSearch(256 * n, 0, 46340)

Pt(x, y) == [x |-> x, y |-> y]

\* calculateDistance(p1, p2)
calculateDistance(p1, p2) ==
    Sqrt((p2.x - p1.x) * (p2.x - p1.x) + (p2.y - p1.y) * (p2.y - p1.y))

\* Fractional bits of log2(m / 4096) for 4096 <= m < 8192, by repeated squaring.
RECURSIVE Log2Frac(_, _)
Log2Frac(m, bits) ==
    IF bits = 0 THEN 0
    ELSE LET sq == (m * m) \div 4096 IN
         IF sq >= 8192
         THEN 2 ^ (bits - 1) + Log2Frac(sq \div 2, bits - 1)
         ELSE Log2Frac(sq, bits - 1)

RECURSIVE Log2Int(_, _)
Log2Int(num, den) == IF num >= 2 * den THEN 1 + Log2Int(num, 2 * den) ELSE 0

\* Math.log2(num / den) for num >= den > 0, in units of 1/1024.
Log2(num, den) ==
    LET k == Log2Int(num, den)
        m == (num * 4096) \div (den * 2 ^ k)
    IN k * 1024 + Log2Frac(m, 10)

\* Viewports are records [width, height, scrollY, documentHeight].
InViewport(p, vp) ==
    /\ 0 <= p.x /\ p.x <= vp.width - 1
    /\ 0 <= p.y /\ p.y <= vp.height - 1

clampToViewport(p, vp) ==
    Pt(clamp(p.x, 0, vp.width - 1), clamp(p.y, 0, vp.height - 1))

\* getBezierPoint(t, p0, p1, p2, p3); t in 1/TScale.  The Bernstein weights are
\* kept in 1/TScale; at t = TScale the result is p3 exactly, at t = 0 it is p0.
getBezierPoint(t, p0, p1, p2, p3) ==
    LET omt == TScale - t
        w0 == (omt * omt * omt) \div (TScale * TScale)
        w1 == (3 * omt * omt * t) \div (TScale * TScale)
        w2 == (3 * omt * t * t) \div (TScale * TScale)
        w3 == (t * t * t) \div (TScale * TScale)
    IN Pt(RoundDiv(p0.x * w0 + p1.x * w1 + p2.x * w2 + p3.x * w3, TScale),
          RoundDiv(p0.y * w0 + p1.y * w1 + p2.y * w2 + p3.y * w3, TScale))

\* Cubic ease-in/ease-out used by multiLayerEasing and easeInOutCubic
\* (t < 0.5 ? 4 t^3 : 1 - (-2 t + 2)^3 / 2), t in 1/TScale.
cubicEase(t) ==
    IF 2 * t < TScale
    THEN (4 * t * t * t) \div (TScale * TScale)
    ELSE TScale - ((2 * TScale - 2 * t) * (2 * TScale - 2 * t) * (2 * TScale - 2 * t))
                      \div (2 * TScale * TScale)


(***************************************************************************)
(* Trajectory generation (pure computation over the random draws)          *)
(***************************************************************************)
\* Optional values (null / undefined in the source) are sequences of length
\* at most one.
Absent == << >>
Some(v) == << v >>

\* Movement options: {numPoints?, isApproach?}; the remaining fields keep their
\* defaults (overshootProb 0.16, jitterStdDev 1.5, defaultTargetWidth 100).
Options(numPoints, isApproach) == [numPoints |-> numPoints, isApproach |-> isApproach]
DefaultOptions == Options(Absent, FALSE)

\* options.defaultTargetWidth ?? 100
defaultTargetWidth == 100

\* curveComplexity 'high' (the default): complexityMultiplier = 1.3, in tenths.
complexityMultiplier == 13

\* Gaussian draws are z-scores in tenths (z10); a draw of standard deviation sd
\* (in 1/1000 pixel) is z10 * sd / 10.
Gauss(z10, sdMilli) == (z10 * sdMilli) \div 10

\* x * fatigueMultiplier
TimesFatigue(x, fm) == (x * fm) \div Unit

\* multiLayerEasing(t, distance).  e = [micro, tremor, lapse, hesitate]:
\*   micro  = (Math.random() - 0.5) * 0.02               in [-10, 10]
\*   tremor = Math.sin(t * 8 PI + Math.random()) * 0.008 in [-8, 8]; at t = 1 the
\*            sine is sin(r), r in [0, 1), hence >= 0
\*   lapse  = (Math.random() - 0.5) * 0.03, applied when attentionSpan < 0.92
\*            and Math.random() < 0.05
\*   hesitate: distance > 500, 0.35 < t < 0.65 and Math.random() < 0.04
multiLayerEasing(t, distance, e, att) ==
    LET e0 == cubicEase(t) + e.micro
        e1 == e0 + (IF t = TScale THEN Max(0, e.tremor) ELSE e.tremor)
        e2 == IF att < 9200 THEN e1 + e.lapse ELSE e1
        e3 == IF distance > 500 /\ t > 350 /\ t < 650 /\ e.hesitate
              THEN (e2 * 92) \div 100 ELSE e2
    IN clamp(e3, 0, TScale)

\* calculateRealisticControlPoints.  c = [dev, bias, c1, c2, asym, d1, d2]:
\*   dev  = 0.10 + Math.random() * 0.32 (1/1000),  bias = +1 / -1,
\*   c1   = 0.18 + Math.random() * 0.24, c2 = 0.54 + Math.random() * 0.28,
\*   asym = (Math.random() - 0.5) * 0.22,
\*   d1   = 0.5 + Math.random() * 0.6,   d2 = 0.4 + Math.random() * 0.7
calculateRealisticControlPoints(start, target, D, opts, c, fm) ==
    LET dx == target.x - start.x
        dy == target.y - start.y
        baseDeviation == (D * c.dev) \div 1000
        deviation == IF opts.isApproach THEN (baseDeviation * 35) \div 100
                     ELSE baseDeviation
        len == IF D = 0 THEN 1 ELSE D
        c1Factor == clamp(c.c1 + c.asym, 150, 480)
        c2Factor == clamp(c.c2 - c.asym, 500, 880)
        c1Deviation == (deviation * c.d1) \div 1000
        c2Deviation == (deviation * c.d2) \div 1000
        \* directionBias * cDeviation * perp * fatigueImpact
        off(cDev, perpNum) == c.bias * TimesFatigue((cDev * perpNum) \div len, fm)
    IN [p0 |-> start,
        p1 |-> Pt(start.x + (dx * c1Factor) \div 1000 + off(c1Deviation, -dy),
                  start.y + (dy * c1Factor) \div 1000 + off(c1Deviation, dx)),
        p2 |-> Pt(start.x + (dx * c2Factor) \div 1000 + off(c2Deviation, -dy),
                  start.y + (dy * c2Factor) \div 1000 + off(c2Deviation, dx)),
        p3 |-> target]

\* Number of points of calculateHumanBezierPoints before the numPoints override:
\* applyFatigue(Math.max(15, Math.round(12 * ID * complexityMultiplier))).
baseNumPoints(D, W) ==
    Max(15, RoundDiv(12 * Log2(D + W, W) * complexityMultiplier, 1024 * 10))

\* The curve of one calculateHumanBezierPoints call.
BezierSegment(start, target, W, opts, c, f, cfg) ==
    LET D == calculateDistance(start, target)
        n == applyFatigue(baseNumPoints(D, W), f, cfg)
        g == applyFatigueState(f, cfg)
    IN [kind |-> "bezier",
        ctl |-> calculateRealisticControlPoints(start, target, D, opts, c,
                                                g.fatigueMultiplier),
        n |-> IF opts.numPoints = Absent THEN n ELSE opts.numPoints[1],
        D |-> D,
        approach |-> opts.isApproach]

\* One sample of the main loop of calculateHumanBezierPoints (lines 1272-1330).
\* i is the 1-based index, prev the previous point of the array, s the draws:
\*   ease; mc = [on, cos, sin, z] micro-correction; jx, jy jitter z-scores;
\*   ae = [on, zx, zy] attention error; sub = [on, z] sub-movement;
\*   rot in {-1, 0, 1}: angular variation off, or by -/+ 0.16 rad
\*   (cos 0.987, sin 0.159).
bezierSample(seg, i, prev, s, att, fm, vp) ==
    LET n == seg.n
        linearT == (i * TScale) \div n
        easedT == multiLayerEasing(linearT, seg.D, s.ease, att)
        b == getBezierPoint(easedT, seg.ctl.p0, seg.ctl.p1, seg.ctl.p2, seg.ctl.p3)
        mcOn == s.mc.on /\ 10 * i > 2 * n /\ 10 * i < 9 * n
        mcMag == Gauss(s.mc.z, TimesFatigue(4000, fm))
        jitterStdDev == TimesFatigue(1500, fm)
        distanceToEnd1000 == (TScale - easedT) * seg.D
        adaptiveJitter == (jitterStdDev * Min(1500, distanceToEnd1000 \div 70)) \div 1000
        aeOn == att < 9500 /\ s.ae.on
        aeSd == (TimesFatigue(((Unit - att) * 18000) \div Unit, fm) * 25) \div 100
        subOn == s.sub.on /\ 10 * i > 3 * n /\ 100 * i < 85 * n
        subMove == Gauss(s.sub.z, TimesFatigue(2500, fm))
        nx == (IF mcOn THEN (s.mc.cos * mcMag) \div 1000 ELSE 0)
              + Gauss(s.jx, adaptiveJitter)
              + (IF aeOn THEN Gauss(s.ae.zx, aeSd) ELSE 0)
              + (IF subOn THEN subMove ELSE 0)
        ny == (IF mcOn THEN (s.mc.sin * mcMag) \div 1000 ELSE 0)
              + Gauss(s.jy, adaptiveJitter)
              + (IF aeOn THEN Gauss(s.ae.zy, aeSd) ELSE 0)
              + (IF subOn THEN subMove ELSE 0)
        q == Pt(b.x + RoundDiv(nx, 1000), b.y + RoundDiv(ny, 1000))
        vx == q.x - prev.x
        vy == q.y - prev.y
        r == IF i > 1 /\ s.rot # 0
             THEN Pt(prev.x + RoundDiv(vx * 987 - s.rot * vy * 159, 1000),
                     prev.y + RoundDiv(s.rot * vx * 159 + vy * 987, 1000))
             ELSE q
    IN clampToViewport(r, vp)


\* generateRealisticCorrectionPath: the curve.  k = [dev, sign, r1, r2]:
\*   dev = 0.03 + Math.random() * 0.09, sign = -1 / +1, r1, r2 = Math.random().
CorrectionSegment(over, target, k) ==
    LET D == calculateDistance(over, target)
        dx == target.x - over.x
        dy == target.y - over.y
        len == IF D = 0 THEN 1 ELSE D
        dev == (D * k.dev) \div 1000
        off(perpNum, r) == k.sign * ((((dev * perpNum) \div len) * r) \div 1000)
    IN [kind |-> "correction",
        ctl |-> [p0 |-> over,
                 p1 |-> Pt(over.x + (dx * 32) \div 100 + off(-dy, k.r1),
                           over.y + (dy * 32) \div 100 + off(dx, k.r1)),
                 p2 |-> Pt(over.x + (dx * 75) \div 100 + off(-dy, k.r2),
                           over.y + (dy * 75) \div 100 + off(dx, k.r2)),
                 p3 |-> target],
        n |-> Max(8, RoundDiv(D, 10)),
        D |-> D,
        approach |-> FALSE]

\* One sample of generateRealisticCorrectionPath (lines 1503-1516).
correctionSample(seg, i, s, att, fm, vp) ==
    LET linearT == (i * TScale) \div seg.n
        easedT == multiLayerEasing(linearT, seg.D, s.ease, att)
        b == getBezierPoint(easedT, seg.ctl.p0, seg.ctl.p1, seg.ctl.p2, seg.ctl.p3)
        jitterStdDev == TimesFatigue(900, fm)
    IN clampToViewport(Pt(b.x + RoundDiv(Gauss(s.jx, jitterStdDev), 1000),
                          b.y + RoundDiv(Gauss(s.jy, jitterStdDev), 1000)), vp)

\* handleRealisticOvershoot: the decision.  want stands for
\* Math.random() < adjustedOvershootProb (possible only if the probability > 0).
shouldOvershoot(box, opts, D, want, att) ==
    /\ box # Absent
    /\ ~opts.isApproach
    /\ D > 120
    /\ want
    /\ att < 9200

\* handleRealisticOvershoot: the overshoot point.  factor = 0.08 + Math.random() * 0.20.
overshootPoint(start, target, W, vp, factor, fm) ==
    LET dx == target.x - start.x
        dy == target.y - start.y
        D == calculateDistance(start, target)
        len == IF D = 0 THEN 1 ELSE D
        dist == (TimesFatigue(factor, fm) * W) \div 1000
        at(d) == Pt(target.x + (dx * d) \div len, target.y + (dy * d) \div len)
        margin == 20
        outside(p) == \/ p.x < margin \/ p.x >= vp.width - margin
                      \/ p.y < margin \/ p.y >= vp.height - margin
        o == IF outside(at(dist)) THEN at(dist \div 2) ELSE at(dist)
    IN Pt(clamp(o.x, margin, vp.width - margin), clamp(o.y, margin, vp.height - margin))

\* calculateHumanBezierPoints(startX, startY, targetX, targetY, box, viewport, options):
\* the plan of the trajectory (its curves, in order, and the target drift) and
\* the fatigue state the call leaves.  r = [c, drift, want, factor, c2, k]:
\*   c, c2 control-point draws of the outer and of the inner (overshoot) call,
\*   drift the z-score of the target drift, k the correction-path draws.
calculateHumanBezierPoints(start, target, box, vp, opts, r, f, cfg) ==
    LET D == calculateDistance(start, target)
        W == IF box = Absent THEN defaultTargetWidth ELSE Min(box[1].width, box[1].height)
        f1 == applyFatigueState(f, cfg)
        seg == BezierSegment(start, target, W, opts, r.c, f, cfg)
        drift == IF ~opts.isApproach /\ D > 100
                 THEN Some(Gauss(r.drift, TimesFatigue(3000, f1.fatigueMultiplier)))
                 ELSE Absent
        over == overshootPoint(start, target, W, vp, r.factor, f1.fatigueMultiplier)
        f2 == applyFatigueState(f1, cfg)
    IN IF shouldOvershoot(box, opts, D, r.want, f1.attentionSpan)
       THEN [segs |-> << BezierSegment(start, over, W, opts, r.c2, f1, cfg),
                         CorrectionSegment(over, target, r.k) >>,
             drift |-> drift, fatigue |-> f2]
       ELSE [segs |-> << seg >>, drift |-> drift, fatigue |-> f1]

\* options.overshootProb ?? 0.16, in thousandths
defaultOvershootProb == 160

\* The overshootProb of the options handleRealisticOvershoot passes to its inner
\* call: { ...options, overshootProb: 0 }.
innerOvershootProbKept(prob) == prob
innerOvershootProb(prob) == 0

\* The number of calculateHumanBezierPoints calls one call amounts to, itself
\* included.  prob is the call's overshootProb; us are the outcomes
\* (thousandths) of the Math.random() of line 1425 in the call and in the calls
\* nested in it, in order; factor is the overshoot factor.  Calls nested deeper
\* than Len(us) are not followed.
RECURSIVE bezierCalls(_, _, _, _, _, _, _, _, _, _)
bezierCalls(start, target, box, vp, opts, prob, us, factor, f, cfg) ==
    IF us = << >> THEN 0
    ELSE LET D == calculateDistance(start, target)
             W == IF box = Absent THEN defaultTargetWidth
                  ELSE Min(box[1].width, box[1].height)
             f1 == applyFatigueState(f, cfg)
             adjustedOvershootProb == TimesFatigue(prob, f1.fatigueMultiplier)
             over == overshootPoint(start, target, W, vp, factor, f1.fatigueMultiplier)
         IN IF shouldOvershoot(box, opts, D, Head(us) < adjustedOvershootProb,
                               f1.attentionSpan)
            THEN 1 + bezierCalls(start, over, box, vp, opts, innerOvershootProb(prob),
                                 Tail(us), factor, f1, cfg)
            ELSE 1

\* points.length of a plan
PlanLength(segs) == IF Len(segs) = 1 THEN segs[1].n ELSE segs[1].n + segs[2].n

\* The i-th point (1-based) of the array calculateHumanBezierPoints returns.
planPoint(segs, i, prev, s, att, fm, vp) ==
    IF i <= segs[1].n
    THEN bezierSample(segs[1], i, prev, s, att, fm, vp)
    ELSE correctionSample(segs[2], i - segs[1].n, s, att, fm, vp)

\* moveToPosition, lines 1156-1161: the target drift added to points[i0]
\* (i0 0-based) once i0 > points.length * 0.5.
driftedPoint(p, i0, n, drift) ==
    IF drift # Absent /\ 2 * i0 > n
    THEN Pt(p.x + RoundDiv(drift[1] * (2 * i0 - n), n * 1000),
            p.y + RoundDiv(drift[1] * (2 * i0 - n), n * 1000))
    ELSE p

\* moveToPosition, lines 1163-1164: the clamp before page.mouse.move.
emitUnclamped(p, vp) == p
emitClamp(p, vp) == clampToViewport(p, vp)

\* initializePosition(viewport); d = [rx, ry]: Math.pow(Math.random(), 1.3) and
\* Math.random(), in 1/1000.
initializePosition(vp, d) ==
    LET margin == 120
    IN Pt(margin + (d.rx * (vp.width - 2 * margin)) \div 1000,
          margin + (d.ry * (vp.height - 2 * margin)) \div 1000)


(***************************************************************************)
(* Bounds of the model and the random draws tried                          *)
(***************************************************************************)
\* Public operations started in one behaviour.
MaxOps == 2

viewportCacheDuration == 2000
maxHistoryLength == 50

Viewport(w, h, sy, dh) == [width |-> w, height |-> h, scrollY |-> sy, documentHeight |-> dh]

\* getViewport's fallback (scrollX, devicePixelRatio and the widths left out).
FallbackViewport == Viewport(1920, 1080, 0, 1080)

\* The browser window: what a driver read of the viewport returns, whether
\* such reads can fail (page.evaluate rejecting or returning null), and whether
\* page.mouse.move can throw.
Window(w, h, sy, dh, flaky) ==
    [width |-> w, height |-> h, scrollY |-> sy, documentHeight |-> dh, flaky |-> flaky,
     moveFails |-> FALSE]

FailingMoves(win) == [win EXCEPT !.moveFails = TRUE]

readViewport(win) == Viewport(win.width, win.height, win.scrollY, win.documentHeight)

\* Windows the page may have: a small one and an ordinary one.
PageChoices == { Window(100, 80, 0, 80, TRUE), Window(400, 300, 0, 1200, TRUE) }

\* Draws of initializePosition.
InitDraws == { [rx |-> 0, ry |-> 0], [rx |-> 999, ry |-> 999] }

ControlDraw(dev, bias, c1, c2, asym, d1, d2) ==
    [dev |-> dev, bias |-> bias, c1 |-> c1, c2 |-> c2, asym |-> asym, d1 |-> d1, d2 |-> d2]
FlatControl == ControlDraw(100, 1, 180, 540, -110, 500, 400)
BowedControl == ControlDraw(420, -1, 420, 820, 110, 1100, 1100)

CorrectionDraw(dev, sign, r1, r2) == [dev |-> dev, sign |-> sign, r1 |-> r1, r2 |-> r2]
FlatCorrection == CorrectionDraw(30, 1, 0, 0)
BowedCorrection == CorrectionDraw(120, -1, 999, 999)

Ease(micro, tremor, lapse, hesitate) ==
    [micro |-> micro, tremor |-> tremor, lapse |-> lapse, hesitate |-> hesitate]
SampleDraw(ease, mc, jx, jy, ae, sub, rot) ==
    [ease |-> ease, mc |-> mc, jx |-> jx, jy |-> jy, ae |-> ae, sub |-> sub, rot |-> rot]
MicroCorr(on, c, sn, z) == [on |-> on, cos |-> c, sin |-> sn, z |-> z]
AttErr(on, zx, zy) == [on |-> on, zx |-> zx, zy |-> zy]
SubMove(on, z) == [on |-> on, z |-> z]

\* No noise at all.
Quiet == SampleDraw(Ease(0, 0, 0, FALSE), MicroCorr(FALSE, 0, 0, 0), 0, 0,
                    AttErr(FALSE, 0, 0), SubMove(FALSE, 0), 0)
\* Every layer pushing right/down, easing ahead.
Plus == SampleDraw(Ease(10, 8, 15, FALSE), MicroCorr(TRUE, 1000, 0, 20), 20, 20,
                   AttErr(TRUE, 20, 20), SubMove(TRUE, 20), 0)
\* Every layer pushing left/up, easing behind, hesitating.
Minus == SampleDraw(Ease(-10, -8, -15, TRUE), MicroCorr(TRUE, 0, 1000, -20), -20, -20,
                    AttErr(TRUE, -20, -20), SubMove(TRUE, -20), 0)
\* Only the angular variation.
Turn == SampleDraw(Ease(0, 0, 0, FALSE), MicroCorr(FALSE, 0, 0, 0), 0, 0,
                   AttErr(FALSE, 0, 0), SubMove(FALSE, 0), 1)
\* Draws tried for sample i of n.  The angular variation makes a point depend on
\* the one before it; it is tried at the second and at the last sample.
FineDraws(i, n) == { Quiet, Plus, Minus } \cup (IF i = 2 \/ i = n THEN { Turn } ELSE { })
CoarseDraws(i, n) == { Quiet } \cup (IF i = n THEN { Minus } ELSE { })

\* Draws of one calculateHumanBezierPoints call: control points, z-score
\* (tenths) of the target drift, the overshoot draw and its factor, control
\* points of the inner call, correction path.
PlanDraw(c, drift, want, factor, c2, k) ==
    [c |-> c, drift |-> drift, want |-> want, factor |-> factor, c2 |-> c2, k |-> k]
PlanDraws == { PlanDraw(FlatControl, -20, FALSE, 80, FlatControl, FlatCorrection),
               PlanDraw(BowedControl, 20, TRUE, 280, BowedControl, BowedCorrection) }

(***************************************************************************)
(* Engine state                                                            *)
(***************************************************************************)
NoMove == [active |-> FALSE]
NoCall == [active |-> FALSE]

\* What the running operation has asked of page.mouse:
\*   op        the public operation
\*   lastMove  Absent, or the last page.mouse.move: its coordinate p and the
\*             viewport its caller had obtained
\*   moved, wheeled   a page.mouse.move / page.mouse.wheel was issued
\*   wheels, lastWheel   page.mouse.wheel calls issued, and the deltaY of the
\*                    last one
\*   moveThrew, moveReturned   a page.mouse.move of moveToPosition's loop
\*                    threw / returned
\*   downs, ups       page.mouse.down / page.mouse.up calls issued
\*   downReturned, upReturned   such a call returned without throwing
\*   held             a move or wheel was issued after page.mouse.down
\*                    returned and before page.mouse.up was issued
\*   recorded         updateActionCount calls made
\*   handles, disposed   handles element.evaluateHandle returned to
\*                    getScrollContainer, and dispose() calls made on them
\*   error            message of the Error the operation threw, "" if none
NewDriver(op) ==
    [op |-> op, lastMove |-> Absent, moved |-> FALSE, wheeled |-> FALSE,
     wheels |-> 0, lastWheel |-> 0, moveThrew |-> FALSE, moveReturned |-> FALSE,
     downs |-> 0, ups |-> 0, downReturned |-> FALSE, upReturned |-> FALSE,
     held |-> FALSE, recorded |-> 0, handles |-> 0, disposed |-> 0, error |-> ""]

Pressed(d) == d.downReturned /\ d.ups = 0

MouseMove(d, p, vp) ==
    [d EXCEPT !.lastMove = Some([p |-> p, viewport |-> vp]), !.moved = TRUE,
              !.held = @ \/ Pressed(d)]

MouseWheel(d, delta) ==
    [d EXCEPT !.wheeled = TRUE, !.wheels = @ + 1, !.lastWheel = delta,
              !.held = @ \/ Pressed(d)]

\* addToHistory(position)
addToHistoryDropsNewest(h, p) ==
    LET g == Append(h, p) IN IF Len(g) > maxHistoryLength THEN SubSeq(g, 1, Len(h)) ELSE g
addToHistory(h, p) ==
    LET g == Append(h, p) IN IF Len(g) > maxHistoryLength THEN Tail(g) ELSE g

\* getViewport(): the viewport returned and the cache it leaves.  A stale or
\* empty cache is refilled by a driver read, or, when every read fails (which
\* a flaky page allows), by the fallback, stored as if read
\* viewportCacheDuration - 500 ms ago.
\* reads is the number of page.evaluate calls made: none when the cache is
\* served; on a flaky page any of the retries + 1 attempts may be the first to
\* succeed.
retries == 2

\* Line 90: the cache is served.
cacheFreshWhateverAge == cachedViewport # Absent
cacheFresh == cachedViewport # Absent /\ viewportCacheAge < viewportCacheDuration

getViewport ==
    IF cacheFresh
    THEN { [viewport |-> cachedViewport[1], cached |-> cachedViewport,
            age |-> viewportCacheAge, reads |-> 0] }
    ELSE { [viewport |-> readViewport(page), cached |-> Some(readViewport(page)),
            age |-> 0, reads |-> k] : k \in 1 .. (IF page.flaky THEN retries + 1 ELSE 1) }
         \cup (IF page.flaky
               THEN { [viewport |-> FallbackViewport, cached |-> Some(FallbackViewport),
                       age |-> viewportCacheDuration - 500, reads |-> retries + 1] }
               ELSE { })

SetCache(gv) ==
    /\ cachedViewport' = gv.cached
    /\ viewportCacheAge' = gv.age

\* invalidateViewportCache()
keepViewportCache == UNCHANGED cacheVars
invalidateViewportCache ==
    /\ cachedViewport' = Absent
    /\ viewportCacheAge' = viewportCacheDuration

InitEngine(configs, attention, pages) ==
    /\ config \in configs
    /\ actionCount = 0
    /\ attentionSpan \in attention
    /\ fatigueMultiplier = Unit
    /\ lastPos = Absent
    /\ moveHistory = << >>
    /\ cachedViewport = Absent
    /\ viewportCacheAge = viewportCacheDuration
    /\ page \in pages
    /\ pc = "idle"
    /\ mv = NoMove
    /\ driver = NewDriver("idle")
    /\ opsDone = [moves |-> 0, clicks |-> 0]
    /\ probe = << >>
    /\ call = NoCall


(***************************************************************************)
(* moveToPosition, move, microMouseAdjustment, reset                       *)
(***************************************************************************)
\* moveToPosition(targetX, targetY, options), lines 1132-1150: up to the start
\* of the emission loop.  gv is what getViewport returned, ret where the caller
\* continues.
StartMoveToPosition(t, opts, gv, ret) ==
    \E ip \in (IF lastPos = Absent THEN InitDraws ELSE {[rx |-> 0, ry |-> 0]}),
       r \in PlanDraws :
        LET vp == gv.viewport
            start == IF lastPos = Absent THEN initializePosition(vp, ip) ELSE lastPos[1]
            target == clampToViewport(t, vp)
            plan == calculateHumanBezierPoints(start, target, Absent, vp, opts, r,
                                               Fatigue, config)
        IN /\ SetCache(gv)
           /\ lastPos' = Some(start)
           /\ SetFatigue(plan.fatigue)
           /\ mv' = [active |-> TRUE, viewport |-> vp, target |-> target,
                     segs |-> plan.segs, n |-> PlanLength(plan.segs), i |-> 0,
                     prev |-> start, drift |-> plan.drift, ret |-> ret]
           /\ pc' = "moving"
           /\ UNCHANGED <<config, moveHistory, page, probe>>

\* Lines 1168-1171: page.mouse.move threw inside the loop.  The catch logs and
\* continues with the next iteration; m is the loop state after this one.
afterMoveThrowPropagates(m) == [pc |-> "failed", mv |-> NoMove]
afterMoveThrow(m) == [pc |-> "moving", mv |-> m]

\* One iteration of the emission loop (lines 1153-1188): the next point of the
\* plan, drifted, clamped and passed to page.mouse.move, which returns or (on
\* a page where it can) throws.  fine selects the larger set
\* of draws.
MoveSample(fine) ==
    /\ mv.active
    /\ pc = "moving"
    /\ mv.i < mv.n
    /\ \E s \in (IF fine THEN FineDraws(mv.i + 1, mv.n) ELSE CoarseDraws(mv.i + 1, mv.n)),
          ok \in (IF page.moveFails THEN BOOLEAN ELSE { TRUE }) :
        LET i == mv.i + 1
            p == planPoint(mv.segs, i, mv.prev, s, attentionSpan, fatigueMultiplier,
                           mv.viewport)
            e == emitClamp(driftedPoint(p, i - 1, mv.n, mv.drift), mv.viewport)
            m == [mv EXCEPT !.i = i, !.prev = p]
            after == IF ok THEN [pc |-> pc, mv |-> m] ELSE afterMoveThrow(m)
        IN /\ mv' = after.mv
           /\ pc' = after.pc
           /\ driver' = [MouseMove(driver, e, mv.viewport) EXCEPT
                             !.moveThrew = @ \/ ~ok, !.moveReturned = @ \/ ok]
    /\ UNCHANGED <<config, fatigueVars, motionVars, cacheVars, page, opsDone, probe, call>>

\* Lines 1190-1192: after the loop.
MoveFinish ==
    /\ mv.active
    /\ pc = "moving"
    /\ mv.i = mv.n
    /\ lastPos' = Some(mv.target)
    /\ moveHistory' = addToHistory(moveHistory, mv.target)
    /\ pc' = mv.ret
    /\ mv' = NoMove
    /\ UNCHANGED <<config, fatigueVars, cacheVars, page, driver, opsDone, probe, call>>

\* Destinations a caller may ask for (inside, left of and beyond the window).
\* with default options, with a numPoints override and as an approach.
MoveCalls ==
    { [target |-> Pt(-50, 40), options |-> DefaultOptions],
      [target |-> Pt(5000, 3000), options |-> Options(Some(3), FALSE)],
      [target |-> Pt(300, 200), options |-> Options(Absent, TRUE)] }

\* this.updateActionCount() made by the running operation.
RecordAction ==
    /\ \E rec \in RecoveryDraws(Fatigue) : SetFatigue(updateActionCount(Fatigue, rec))
    /\ driver' = [driver EXCEPT !.recorded = @ + 1]

\* A caller invokes moveToPosition(x, y, options).
CallMoveToPosition ==
    /\ pc = "idle"
    /\ opsDone.moves < MaxOps
    /\ \E c \in MoveCalls, gv \in getViewport :
           StartMoveToPosition(c.target, c.options, gv, "done")
    /\ driver' = NewDriver("moveToPosition")
    /\ opsDone' = [opsDone EXCEPT !.moves = @ + 1]
    /\ UNCHANGED call

\* move(options), lines 1114-1125; d = [rx, ry] are its two Math.random() draws
\* (1/1000).  The getViewport of the moveToPosition it calls is served from the
\* cache the first one has just filled.
MoveTargetDraws == { [rx |-> 999, ry |-> 999] }

moveTarget(vp, d) ==
    LET padding == 60
    IN Pt(padding + (d.rx * (vp.width - 2 * padding)) \div 1000,
          padding + (d.ry * (vp.height - 2 * padding)) \div 1000)

CallMove ==
    /\ pc = "idle"
    /\ opsDone.moves < MaxOps
    /\ \E d \in MoveTargetDraws, gv \in getViewport :
           StartMoveToPosition(moveTarget(gv.viewport, d), DefaultOptions, gv,
                               "move.record")
    /\ driver' = NewDriver("move")
    /\ opsDone' = [opsDone EXCEPT !.moves = @ + 1]
    /\ UNCHANGED call

\* move, line 1126: this.updateActionCount()
MoveRecord ==
    /\ pc = "move.record"
    /\ RecordAction
    /\ pc' = "done"
    /\ UNCHANGED <<config, motionVars, cacheVars, page, mv, opsDone, probe, call>>

\* microMouseAdjustment(), lines 1524-1540; zx, zy are the Gaussian draws.
microTarget(p, zx, zy, fm, vp) ==
    clampToViewport(Pt(p.x + RoundDiv(Gauss(zx, TimesFatigue(2500, fm)), 1000),
                       p.y + RoundDiv(Gauss(zy, TimesFatigue(2500, fm)), 1000)), vp)

MicroDraws == { -20, 20 }

microMouseAdjustment(d) ==
    IF lastPos = Absent
    THEN /\ driver' = d
         /\ UNCHANGED cacheVars
    ELSE \E gv \in getViewport, zx \in MicroDraws, zy \in MicroDraws :
           /\ SetCache(gv)
           /\ driver' = MouseMove(d, microTarget(lastPos[1], zx, zy, fatigueMultiplier,
                                                 gv.viewport), gv.viewport)

CallMicroMouseAdjustment ==
    /\ pc = "idle"
    /\ opsDone.moves < MaxOps
    /\ microMouseAdjustment(NewDriver("microMouseAdjustment"))
    /\ opsDone' = [opsDone EXCEPT !.moves = @ + 1]
    /\ pc' = "done"
    /\ UNCHANGED <<config, fatigueVars, motionVars, page, mv, probe, call>>

\* reset(), lines 1723-1731
CallReset ==
    /\ pc = "idle"
    /\ actionCount' = 0
    /\ attentionSpan' \in InitialAttention
    /\ fatigueMultiplier' = Unit
    /\ moveHistory' = << >>
    /\ lastPos' = Absent
    /\ invalidateViewportCache
    /\ driver' = NewDriver("reset")
    /\ pc' = "done"
    /\ UNCHANGED <<config, page, mv, opsDone, probe, call>>

\* The operation has returned (or thrown) to its caller.
Return ==
    /\ pc \in {"done", "failed"}
    /\ pc' = "idle"
    /\ driver' = NewDriver("idle")
    /\ call' = NoCall
    /\ UNCHANGED <<config, fatigueVars, motionVars, cacheVars, page, mv, opsDone, probe>>

(***************************************************************************)
(* Environment                                                             *)
(***************************************************************************)
\* Time passes between two operations: long enough for the cache to expire.
TimePasses ==
    /\ pc = "idle"
    /\ cachedViewport # Absent
    /\ viewportCacheAge < viewportCacheDuration
    /\ viewportCacheAge' = viewportCacheDuration
    /\ UNCHANGED <<config, fatigueVars, motionVars, cachedViewport, page, pc, mv,
                   driver, opsDone, probe, call>>

\* Half a second passes between two operations.
HalfSecondPasses ==
    /\ pc = "idle"
    /\ cachedViewport # Absent
    /\ viewportCacheAge < viewportCacheDuration
    /\ viewportCacheAge' = viewportCacheAge + 500
    /\ UNCHANGED <<config, fatigueVars, motionVars, cachedViewport, page, pc, mv,
                   driver, opsDone, probe, call>>

\* The user resizes or scrolls the window between two operations.
WindowChanges ==
    /\ pc = "idle"
    /\ page' \in { [page EXCEPT !.width = w, !.scrollY = sy] :
                      w \in { 400, 800 }, sy \in { 0, 150 } } \ { page }
    /\ UNCHANGED <<config, fatigueVars, motionVars, cacheVars, pc, mv, driver,
                   opsDone, probe, call>>

\* The user widens a narrow window between two operations (no event reaches the
\* engine: it listens to 'framenavigated' only).
WindowGrows ==
    /\ pc = "idle"
    /\ page.width < 800
    /\ page' = [page EXCEPT !.width = 800]
    /\ UNCHANGED <<config, fatigueVars, motionVars, cacheVars, pc, mv, driver,
                   opsDone, probe, call>>

\* The page emits 'framenavigated': the listener of setupNavigationListener runs,
\* between two operations or while getViewport awaits page.evaluate (the probe
\* then notes that the event came after the read was issued).
FrameNavigated ==
    /\ IF pc = "getViewport.await"
       THEN probe' = << [probe[1] EXCEPT !.navigated = TRUE] >>
       ELSE /\ pc = "idle"
            /\ cachedViewport # Absent
            /\ UNCHANGED probe
    /\ invalidateViewportCache
    /\ UNCHANGED <<config, fatigueVars, motionVars, page, pc, mv, driver, opsDone, call>>

(***************************************************************************)
(* Specification of the pointer moves                                      *)
(***************************************************************************)
InitMove == InitEngine({DefaultConfig}, {8800}, PageChoices)

NextMove ==
    \/ CallMoveToPosition
    \/ CallMove
    \/ MoveSample(TRUE)
    \/ MoveFinish
    \/ MoveRecord
    \/ CallMicroMouseAdjustment
    \/ CallReset
    \/ Return
    \/ TimePasses
    \/ FrameNavigated

SpecMove == InitMove /\ [][NextMove]_vars

\* The same moves on a page whose page.mouse.move can throw at any call.
InitThrow ==
    InitEngine({DefaultConfig}, {8800}, { FailingMoves(Window(400, 300, 0, 1200, FALSE)) })

NextThrow ==
    \/ CallMoveToPosition
    \/ CallMove
    \/ MoveSample(FALSE)
    \/ MoveFinish
    \/ MoveRecord
    \/ Return

SpecThrow == InitThrow /\ [][NextThrow]_vars

\* The moves of an engine that has completed maxHistoryLength - 1 calls of
\* moveToPosition since its construction, the k-th one to (k, k).
EarlierMoves == [k \in 1 .. maxHistoryLength - 1 |-> Pt(k, k)]

InitHistory ==
    /\ config = DefaultConfig
    /\ actionCount = 0
    /\ attentionSpan = 8800
    /\ fatigueMultiplier = Unit
    /\ lastPos = Some(EarlierMoves[Len(EarlierMoves)])
    /\ moveHistory = EarlierMoves
    /\ cachedViewport \in { Absent, Some(readViewport(Window(400, 300, 0, 1200, FALSE))) }
    /\ viewportCacheAge = viewportCacheDuration
    /\ page = Window(400, 300, 0, 1200, FALSE)
    /\ pc = "idle"
    /\ mv = NoMove
    /\ driver = NewDriver("idle")
    /\ opsDone = [moves |-> 0, clicks |-> 0]
    /\ probe = << >>
    /\ call = NoCall

NextHistory ==
    \/ CallMoveToPosition
    \/ CallMove
    \/ MoveSample(FALSE)
    \/ MoveFinish
    \/ MoveRecord
    \/ CallReset
    \/ Return

SpecHistory == InitHistory /\ [][NextHistory]_vars


(***************************************************************************)
(* getViewport under direct calls                                          *)
(***************************************************************************)
\* await this.getViewport().  The probe keeps the cache as the call found it,
\* the window as the driver would report it, the driver reads made, the value
\* returned and the cache as the call left it.
CallGetViewport ==
    /\ pc = "idle"
    /\ \E gv \in getViewport :
        /\ SetCache(gv)
        /\ probe' = << [kind |-> "getViewport", had |-> cachedViewport,
                        age |-> viewportCacheAge, window |-> readViewport(page),
                        reads |-> gv.reads, value |-> gv.viewport,
                        cached |-> gv.cached, cachedAge |-> gv.age] >>
    /\ UNCHANGED <<config, fatigueVars, motionVars, page, pc, mv, driver, opsDone, call>>

\* getViewport(), lines 88-96: a fresh cached value is returned at once;
\* otherwise page.evaluate is issued and awaited.  The probe keeps the value the
\* driver read (read), the attempt, whether 'framenavigated' was delivered since
\* the read was issued, and, once the call has returned, the value returned
\* and where it came from.
StartGetViewport ==
    /\ pc = "idle"
    /\ IF cacheFresh
       THEN /\ probe' = << [kind |-> "getViewport.returned", from |-> "cache",
                            value |-> cachedViewport[1], navigated |-> FALSE] >>
            /\ pc' = "idle"
       ELSE /\ probe' = << [kind |-> "getViewport.read", attempt |-> 0,
                            read |-> readViewport(page), navigated |-> FALSE] >>
            /\ pc' = "getViewport.await"
    /\ UNCHANGED <<config, fatigueVars, motionVars, cacheVars, page, mv, driver, opsDone,
                   call>>

\* getViewport(), lines 96-155: page.evaluate settles.  With a value, it is
\* stored with viewportCacheTime = now (the time the call started) and
\* returned; without one (null, or a rejection) the read is issued again, up to
\* retries times, and then the fallback is stored and returned.
ResumeGetViewport ==
    /\ pc = "getViewport.await"
    /\ \E ok \in (IF page.flaky THEN BOOLEAN ELSE { TRUE }) :
        LET r == probe[1] IN
        IF ok
        THEN /\ cachedViewport' = Some(r.read)
             /\ viewportCacheAge' = 0
             /\ probe' = << [kind |-> "getViewport.returned", from |-> "read",
                             value |-> r.read, navigated |-> r.navigated] >>
             /\ pc' = "idle"
        ELSE IF r.attempt < retries
        THEN /\ probe' = << [r EXCEPT !.attempt = @ + 1, !.read = readViewport(page),
                                      !.navigated = FALSE] >>
             /\ UNCHANGED <<cacheVars, pc>>
        ELSE /\ cachedViewport' = Some(FallbackViewport)
             /\ viewportCacheAge' = viewportCacheDuration - 500
             /\ probe' = << [kind |-> "getViewport.returned", from |-> "fallback",
                             value |-> FallbackViewport, navigated |-> FALSE] >>
             /\ pc' = "idle"
    /\ UNCHANGED <<config, fatigueVars, motionVars, page, mv, driver, opsDone, call>>

InitNavigation == InitEngine({DefaultConfig}, {8800}, { Window(400, 300, 0, 1200, TRUE) })

NextNavigation ==
    \/ StartGetViewport
    \/ ResumeGetViewport
    \/ FrameNavigated
    \/ HalfSecondPasses
    \/ WindowChanges

SpecNavigation == InitNavigation /\ [][NextNavigation]_vars

InitViewport == InitEngine({DefaultConfig}, {8800}, { Window(400, 300, 0, 1200, TRUE) })

NextViewport ==
    \/ CallGetViewport
    \/ HalfSecondPasses
    \/ WindowChanges
    \/ FrameNavigated

SpecViewport == InitViewport /\ [][NextViewport]_vars

\* C16: getViewport always returns a value.  It returns the cached one, without
\* a driver read, exactly when there is one younger than viewportCacheDuration;
\* otherwise it makes at most retries + 1 reads and returns either what a read
\* reported, which it caches as new, or, after retries + 1 failed reads, the
\* 1920x1080 fallback with zero scroll.
C16_ViewportReadCacheFallback ==
    (probe # Absent /\ probe[1].kind = "getViewport") =>
        LET c == probe[1] IN
        /\ c.reads <= retries + 1
        /\ c.reads = 0 <=> (c.had # Absent /\ c.age < 2000)
        /\ c.reads = 0 => c.value = c.had[1]
        /\ c.reads > 0 =>
              \/ c.value = c.window
              \/ /\ c.reads = retries + 1
                 /\ c.value = [width |-> 1920, height |-> 1080, scrollY |-> 0,
                                documentHeight |-> 1080]
        /\ (c.reads > 0 /\ c.value = c.window) =>
              (c.cached = Some(c.value) /\ c.cachedAge = 0)

\* Every read failed on a stale cache holding another viewport, and the
\* fallback was returned.
C16_Witness ==
    /\ probe # Absent
    /\ probe[1].kind = "getViewport"
    /\ probe[1].had # Absent
    /\ probe[1].age >= viewportCacheDuration
    /\ probe[1].reads = 3
    /\ probe[1].value = FallbackViewport
    /\ probe[1].had[1] # FallbackViewport


\* C30: no getViewport call returns, and the cache does not hold as fresh, a
\* value the driver read before a 'framenavigated' event that has been
\* delivered since, the event delivered while the read was in flight included.
C30_NothingFromBeforeNavigation ==
    (/\ probe # Absent
     /\ probe[1].kind = "getViewport.returned"
     /\ probe[1].from = "read") =>
        /\ ~probe[1].navigated
        /\ probe[1].navigated => ~(cachedViewport = Some(probe[1].value) /\ cacheFresh)


\* C31: moveHistory never holds more than maxHistoryLength entries; a
\* completed moveToPosition appends exactly one entry, its target, at the tail,
\* and when the queue was full the oldest entry is the one removed, the others
\* keeping their order.
C31_BoundedFifoHistory ==
    /\ [](Len(moveHistory) <= maxHistoryLength)
    /\ [][(mv.active /\ ~mv'.active) =>
            LET h == moveHistory
                g == moveHistory'
                dropped == IF Len(h) = maxHistoryLength THEN 1 ELSE 0
            IN /\ Len(g) = Len(h) + 1 - dropped
               /\ g[Len(g)] = mv.target
               /\ \A i \in 1 .. Len(g) - 1 : g[i] = h[i + dropped]]_vars

\* A move completed on a full queue: the entry of the first earlier move is gone.
C31_Witness ==
    /\ pc = "done"
    /\ Len(moveHistory) = maxHistoryLength
    /\ moveHistory[1] = EarlierMoves[2]


\* C32: lastPos is absent after construction and after reset; the operation
\* that finds it absent sets it, before it generates a trajectory, to a point
\* inside the viewport that is not the centre of the viewport; no trajectory
\* is generated while lastPos is absent.
C32_LazyInteriorStart ==
    /\ []((opsDone.moves = 0 /\ opsDone.clicks = 0 /\ pc = "idle") => lastPos = Absent)
    /\ [](driver.op = "reset" => lastPos = Absent)
    /\ [](mv.active => lastPos # Absent)
    /\ [][(lastPos = Absent /\ lastPos' # Absent) =>
            /\ mv'.active /\ mv'.i = 0
            /\ InViewport(lastPos'[1], mv'.viewport)
            /\ lastPos'[1] # Pt(mv'.viewport.width \div 2, mv'.viewport.height \div 2)]_vars


(***************************************************************************)
(* Claims about the pointer moves                                          *)
(***************************************************************************)
\* C1: every coordinate passed to page.mouse.move by moveToPosition or
\* microMouseAdjustment lies in [0, width - 1] x [0, height - 1] of the
\* viewport that call obtained from getViewport.
C1_SamplesInsideViewport ==
    driver.lastMove # Absent =>
        InViewport(driver.lastMove[1].p, driver.lastMove[1].viewport)

\* A drifted sample that had left the viewport before the final clamp.
C1_Witness ==
    /\ mv.active
    /\ mv.i > 0
    /\ driver.lastMove # Absent
    /\ ~InViewport(driftedPoint(mv.prev, mv.i - 1, mv.n, mv.drift), mv.viewport)

\* C5: when moveToPosition has emitted its last sample (and there was one), the
\* last coordinate passed to page.mouse.move is the clamped destination.
C5_LastSampleIsDestination ==
    (mv.active /\ mv.n > 0 /\ mv.i = mv.n) =>
        driver.lastMove[1].p = mv.target


\* C26: pointer overshoot is reachable through the public operations: when one
\* of them plans a non-approach move of distance D > 120 with attentionSpan <
\* 0.92, some outcome of Math.random() makes the plan an overshoot followed by
\* a correction.
C26_OvershootReachable ==
    (/\ mv.active
     /\ mv.i = 0
     /\ ~mv.segs[1].approach
     /\ calculateDistance(mv.prev, mv.target) > 120
     /\ attentionSpan < 9200) =>
        \E r \in PlanDraws :
            Len(calculateHumanBezierPoints(mv.prev, mv.target, Absent, mv.viewport,
                                           DefaultOptions, r, Fatigue, config).segs) = 2

\* C8: reset() leaves actionCount 0, fatigueMultiplier 1.0, attentionSpan in
\* [0.88, 0.98], moveHistory empty, lastPos absent and the viewport cache
\* invalidated (nothing cached, the next getViewport reads the driver).
C8_ResetPostState ==
    driver.op = "reset" =>
        /\ actionCount = 0
        /\ fatigueMultiplier = Unit
        /\ attentionSpan >= 8800 /\ attentionSpan <= 9800
        /\ moveHistory = << >>
        /\ lastPos = Absent
        /\ cachedViewport = Absent
        /\ viewportCacheAge >= viewportCacheDuration

\* reset() has run on an engine that had moved the pointer.
C8_Witness ==
    /\ driver.op = "reset"
    /\ opsDone.moves > 0

\* C15: whichever of its page.mouse.move calls throw, moveToPosition does not
\* throw; it leaves its loop only after the last sample has been attempted
\* (every iteration issues the call), and then sets lastPos to the clamped
\* target and appends exactly that one entry to moveHistory, which the loop
\* itself leaves alone.
MoveLoopStep ==
    (mv.active /\ mv'.active) =>
        /\ mv'.i = mv.i + 1
        /\ driver'.moved
        /\ UNCHANGED <<lastPos, moveHistory>>

MoveLoopExit ==
    (mv.active /\ ~mv'.active) =>
        /\ mv.i = mv.n
        /\ InViewport(mv.target, mv.viewport)
        /\ lastPos' = Some(mv.target)
        /\ moveHistory' = Append(moveHistory, mv.target)
        /\ pc' = mv.ret

C15_ThrowingMovesAreSkipped ==
    /\ [](driver.op \in {"moveToPosition", "move"} => pc # "failed")
    /\ [][MoveLoopStep /\ MoveLoopExit]_vars

\* moveToPosition has returned although every page.mouse.move it issued threw.
C15_Witness ==
    /\ driver.op = "moveToPosition"
    /\ pc = "done"
    /\ driver.moveThrew
    /\ ~driver.moveReturned


(***************************************************************************)
(* Fatigue / attention state under direct calls of its methods             *)
(***************************************************************************)
\* baseValue arguments tried
BaseValues == { 15, 100 }

\* this.updateActionCount()
UpdateActionCountCall ==
    /\ pc = "idle"
    /\ \E rec \in RecoveryDraws(Fatigue) : SetFatigue(updateActionCount(Fatigue, rec))
    /\ UNCHANGED <<config, motionVars, cacheVars, page, pc, mv, driver, opsDone, probe, call>>

\* this.applyFatigue(baseValue)
ApplyFatigueCall ==
    /\ pc = "idle"
    /\ \E b \in BaseValues :
        probe' = << [kind |-> "applyFatigue", base |-> b, n |-> actionCount,
                     value |-> applyFatigue(b, Fatigue, config),
                     next |-> applyFatigue(b, [Fatigue EXCEPT !.actionCount = @ + 1],
                                           config)] >>
    /\ SetFatigue(applyFatigueState(Fatigue, config))
    /\ UNCHANGED <<config, motionVars, cacheVars, page, pc, mv, driver, opsDone, call>>

\* calculateHumanBezierPoints(0, 0, 500, 0, null, viewport, {}): a trajectory
\* of distance 500 to a target of the default width 100.  The probe keeps the
\* number of points generated, and the number the same call generates with
\* actionCount at fatigueThreshold and the rest of the state as it is.
CalculatePointsCall ==
    /\ pc = "idle"
    /\ \E r \in PlanDraws :
        LET vp == readViewport(page)
            plan(f) == calculateHumanBezierPoints(Pt(0, 0), Pt(500, 0), Absent, vp,
                                                  DefaultOptions, r, f, config)
            now == plan(Fatigue)
            rested == plan([Fatigue EXCEPT !.actionCount = config.fatigueThreshold])
        IN /\ probe' = << [kind |-> "points", n |-> actionCount,
                           value |-> PlanLength(now.segs),
                           rested |-> PlanLength(rested.segs)] >>
           /\ SetFatigue(now.fatigue)
    /\ UNCHANGED <<config, motionVars, cacheVars, page, pc, mv, driver, opsDone, call>>

InitFatigue ==
    InitEngine(ConfigChoices, InitialAttention, { Window(400, 300, 0, 1200, TRUE) })

NextFatigue ==
    \/ UpdateActionCountCall
    \/ ApplyFatigueCall
    \/ CallReset
    \/ Return

SpecFatigue == InitFatigue /\ [][NextFatigue]_vars

\* C6: attentionSpan stays within [minAttentionSpan, 0.98] under any sequence
\* of updateActionCount, applyFatigue and reset calls.
C6_AttentionInRange ==
    /\ attentionSpan >= minAttentionSpan
    /\ attentionSpan <= 9800

\* A recovery has raised attentionSpan to its cap of 0.96.
C6_Witness ==
    /\ actionCount \in 21 .. 30
    /\ attentionSpan = 9600 - 8

\* C7: actionCount is an integer >= 0 and fatigueMultiplier >= 1.0.
C7_CountAndMultiplierBounds ==
    /\ actionCount \in Nat
    /\ fatigueMultiplier >= Unit

\* A recovery has relaxed a multiplier that applyFatigue had raised.
C7_Witness ==
    /\ actionCount \in 21 .. 30
    /\ fatigueMultiplier > excessMultiplier(10, 20)

\* C10: with the rest of the state fixed, applyFatigue(baseValue) at
\* actionCount = n + 1 returns at least what it returns at actionCount = n,
\* including across the maxFatigue ceiling.
C10_MonotoneInActionCount ==
    (probe # Absent /\ probe[1].kind = "applyFatigue") =>
        probe[1].next >= probe[1].value

\* C10 without the step across the ceiling: the returned value is monotone
\* from n to n + 1 for every n other than maxFatigue.
C10_MonotoneExceptAtCeiling ==
    (probe # Absent /\ probe[1].kind = "applyFatigue" /\ probe[1].n # config.maxFatigue) =>
        probe[1].next >= probe[1].value

\* One more recorded action strictly raises the returned value.
C10_Witness ==
    /\ probe # Absent
    /\ probe[1].kind = "applyFatigue"
    /\ probe[1].n # config.maxFatigue
    /\ probe[1].next > probe[1].value

\* Trajectory lengths under the default configuration, after any number of
\* recorded actions.
InitPoints == InitEngine({DefaultConfig}, {8800}, { Window(400, 300, 0, 1200, TRUE) })

NextPoints ==
    \/ UpdateActionCountCall
    \/ CalculatePointsCall

SpecPoints == InitPoints /\ [][NextPoints]_vars

\* C11: the trajectory from (0,0) to (500,0) with target width 100 has more
\* at least 15 points, and at every actionCount above fatigueThreshold more
\* points than it has with actionCount at the threshold (default
\* configuration, the rest of the state equal).
C11_MorePointsAboveThreshold ==
    (/\ probe # Absent
     /\ probe[1].kind = "points"
     /\ config = DefaultConfig
     /\ probe[1].n > config.fatigueThreshold) =>
        /\ probe[1].value >= 15
        /\ probe[1].value > probe[1].rested

\* C22: with the default configuration actionCount is at most 44 between
\* operations, and the exhaustion branch of applyFatigue (actionCount >
\* maxFatigue) would not run.
C22_CountBelowRecoveryPoint ==
    config = DefaultConfig =>
        /\ actionCount <= 44
        /\ exhaustionReset(Fatigue, config) = Fatigue

\* actionCount is 44 for the second time: a recovery by 15 at 45 and fourteen
\* more recorded actions.
C22_Witness ==
    /\ config = DefaultConfig
    /\ actionCount = 44
    /\ attentionSpan = 9600 - 15 * 8

\* C23: between operations fatigueMultiplier is determined by actionCount: it
\* is 1.0 when actionCount <= fatigueThreshold and the excess-derived value
\* 1.0 + 0.4 * (actionCount - fatigueThreshold) / fatigueThreshold otherwise.
C23_MultiplierFunctionOfCount ==
    (pc = "idle" /\ config.fatigueEnabled) =>
        fatigueMultiplier =
            (IF actionCount <= config.fatigueThreshold THEN Unit
             ELSE excessMultiplier(actionCount - config.fatigueThreshold,
                                   config.fatigueThreshold))

\* C24: when actionCount exceeds fatigueThreshold (and not maxFatigue),
\* applyFatigue returns baseValue scaled, and rounded, by the factor it stores
\* in fatigueMultiplier in that call.
C24_OneCommonScalar ==
    (/\ probe # Absent
     /\ probe[1].kind = "applyFatigue"
     /\ config.fatigueEnabled
     /\ probe[1].n > config.fatigueThreshold
     /\ probe[1].n <= config.maxFatigue) =>
        LET stored == applyFatigueState(FatigueOf(probe[1].n, attentionSpan, Unit),
                                        config).fatigueMultiplier
        IN probe[1].value = RoundDiv(probe[1].base * stored, Unit)

\* Calls of updateActionCount counted in one run.
MaxRecorded == 95

\* this.updateActionCount(), counted since construction.  The probe keeps the
\* number of the call, whether the recovery branch (lines 1665-1671) ran, and
\* the fatigue state before and after the call.
CountedUpdateActionCount ==
    /\ pc = "idle"
    /\ (IF probe = Absent THEN 0 ELSE probe[1].calls) < MaxRecorded
    /\ \E rec \in RecoveryDraws(Fatigue) :
        LET after == updateActionCount(Fatigue, rec)
        IN /\ SetFatigue(after)
           /\ probe' = << [kind |-> "updateActionCount",
                           calls |-> IF probe = Absent THEN 1 ELSE probe[1].calls + 1,
                           recovered |-> recoveryDue(actionCount + 1),
                           before |-> Fatigue, after |-> after] >>
    /\ UNCHANGED <<config, motionVars, cacheVars, page, pc, mv, driver, opsDone, call>>

\* this.applyFatigue(baseValue) between two recorded actions; the probe of the
\* count is kept.
ApplyFatigueBetween ==
    /\ pc = "idle"
    /\ applyFatigueState(Fatigue, config) # Fatigue
    /\ SetFatigue(applyFatigueState(Fatigue, config))
    /\ UNCHANGED <<config, motionVars, cacheVars, page, pc, mv, driver, opsDone, probe, call>>

InitRecovery == InitEngine({DefaultConfig}, {8800}, { Window(400, 300, 0, 1200, TRUE) })

NextRecovery ==
    \/ CountedUpdateActionCount
    \/ ApplyFatigueBetween

SpecRecovery == InitRecovery /\ [][NextRecovery]_vars

\* C21: counting the calls of updateActionCount since construction, recovery
\* fires on the 45th, 90th, ... call and on no other; a recovery lowers
\* actionCount by 15 to 24, raises attentionSpan by at most 0.04 and multiplies
\* fatigueMultiplier by 0.85 without taking it below 1.0.
C21_RecoveryEvery45Calls ==
    (probe # Absent /\ probe[1].kind = "updateActionCount") =>
        LET c == probe[1] IN
        /\ c.recovered <=> (c.calls % 45 = 0)
        /\ c.recovered =>
              /\ (c.before.actionCount + 1) - c.after.actionCount \in 15 .. 24
              /\ c.after.attentionSpan - c.before.attentionSpan <= 400
              /\ c.after.fatigueMultiplier =
                     Max(Unit, FloorDiv(c.before.fatigueMultiplier * 85, 100))

\* C12: with the default configuration fatigueMultiplier never exceeds 1.4.
C12_MultiplierAtMost14 ==
    config = DefaultConfig => 10 * fatigueMultiplier <= 14 * Unit


(***************************************************************************)
(* calculateHumanBezierPoints called with a target box                     *)
(***************************************************************************)
\* Arguments tried: a target in the middle of the window, and one 10 from its
\* right edge (inside the margin of 20 the overshoot point is clamped to).
PlanCalls ==
    { [start |-> Pt(100, 150), target |-> Pt(300, 150),
       box |-> [x |-> 260, y |-> 130, width |-> 80, height |-> 40]],
      [start |-> Pt(100, 150), target |-> Pt(390, 150),
       box |-> [x |-> 350, y |-> 130, width |-> 50, height |-> 40]] }

\* Calls of calculateHumanBezierPoints followed into a call
MaxNesting == 3
\* Outcomes of Math.random() tried at line 1425, in thousandths: the least and
\* the greatest, for the call and each call nested in it.
RandomOutcomes == [1..MaxNesting -> {0, 999}]

\* calculateHumanBezierPoints(startX, startY, targetX, targetY, box, viewport, {}):
\* the curves are fixed; the points are then generated one by one.  The probe
\* keeps the arguments, the curves, the number of points generated so far (i),
\* the last one (prev) and the last point of the first curve (firstEnd).
CallCalculateHumanBezierPoints ==
    /\ pc = "idle"
    /\ \E c \in PlanCalls, r \in PlanDraws, us \in RandomOutcomes :
        LET plan == calculateHumanBezierPoints(c.start, c.target, Some(c.box),
                                               readViewport(page), DefaultOptions, r,
                                               Fatigue, config)
            calls == bezierCalls(c.start, c.target, Some(c.box), readViewport(page),
                                 DefaultOptions, defaultOvershootProb, us, r.factor,
                                 Fatigue, config)
        IN /\ (us[1] = 0) = r.want   \* 0 is below 0.16 * fatigueMultiplier, 0.999 is not
           /\ probe' = << [kind |-> "plan", start |-> c.start, target |-> c.target,
                           segs |-> plan.segs, n |-> PlanLength(plan.segs), i |-> 0,
                           prev |-> c.start, firstEnd |-> Absent, calls |-> calls] >>
           /\ SetFatigue(plan.fatigue)
    /\ pc' = "plan"
    /\ driver' = NewDriver("calculateHumanBezierPoints")
    /\ UNCHANGED <<config, motionVars, cacheVars, page, mv, opsDone, call>>

\* One iteration of the point loop of calculateHumanBezierPoints (lines
\* 1272-1330) or of generateRealisticCorrectionPath (lines 1503-1516).
PlanSample ==
    /\ pc = "plan"
    /\ probe[1].i < probe[1].n
    /\ \E s \in FineDraws(probe[1].i + 1, probe[1].n) :
        LET pr == probe[1]
            i == pr.i + 1
            p == planPoint(pr.segs, i, pr.prev, s, attentionSpan, fatigueMultiplier,
                           readViewport(page))
        IN probe' = << [pr EXCEPT !.i = i, !.prev = p,
                                  !.firstEnd = IF i = pr.segs[1].n THEN Some(p) ELSE @] >>
    /\ UNCHANGED <<config, fatigueVars, motionVars, cacheVars, page, pc, mv, driver,
                   opsDone, call>>

\* The point array is returned.
PlanReturn ==
    /\ pc = "plan"
    /\ probe[1].i = probe[1].n
    /\ pc' = "done"
    /\ UNCHANGED <<config, fatigueVars, motionVars, cacheVars, page, mv, driver,
                   opsDone, probe, call>>

InitPlan == InitEngine({DefaultConfig}, {8800}, { Window(400, 300, 0, 1200, FALSE) })

NextPlan ==
    \/ CallCalculateHumanBezierPoints
    \/ PlanSample
    \/ PlanReturn
    \/ Return

SpecPlan == InitPlan /\ [][NextPlan]_vars

\* p lies farther from start along the direction start -> target than target.
Beyond(p, start, target) ==
    (p.x - target.x) * (target.x - start.x) + (p.y - target.y) * (target.y - start.y) > 0

\* C27: one top-level call of calculateHumanBezierPoints invokes itself at most
\* once: it amounts to at most two calls, the second one being the inner call
\* of handleRealisticOvershoot, which is there exactly when the returned points
\* are an overshoot followed by a correction.
C27_AtMostOneInnerCall ==
    (probe # Absent /\ probe[1].kind = "plan") =>
        /\ probe[1].calls <= 2
        /\ probe[1].calls = Len(probe[1].segs)

\* A call that overshot has returned its points.
C27_Witness ==
    /\ probe # Absent
    /\ probe[1].kind = "plan"
    /\ probe[1].calls = 2
    /\ pc = "done"

\* C14: when the overshoot fires, the first curve of the returned points ends
\* beyond the destination and the last point of the corrective curve is the
\* destination.
C14_OvershootThenExactReturn ==
    (probe # Absent /\ probe[1].kind = "plan" /\ Len(probe[1].segs) = 2) =>
        /\ probe[1].firstEnd # Absent =>
               Beyond(probe[1].firstEnd[1], probe[1].start, probe[1].target)
        /\ probe[1].i = probe[1].n => probe[1].prev = probe[1].target


(***************************************************************************)
(* Elements, bounding boxes and scroll arithmetic                          *)
(***************************************************************************)
Box(x, y, w, h) == [x |-> x, y |-> y, width |-> w, height |-> h]

\* A scrollable ancestor of an element: its scrollTop and scrollHeight.  It is
\* a fixed overlay that fills the window, so its clientHeight is the window's
\* height.
Container(scrollTop, scrollHeight) == [scrollTop |-> scrollTop, scrollHeight |-> scrollHeight]

\* The element handle passed to click / scrollToElement: its box in document
\* (or container content) coordinates and its scrollable ancestor, if any.
Element(box, container) == [box |-> box, container |-> container]

\* Targets tried: in the first screen; reaching beyond its right edge; to the
\* right of a window 400 wide; further down the document; far down inside a
\* scroll container.
ElementChoices ==
    { Element(Box(150, 200, 80, 30), Absent),
      Element(Box(340, 100, 100, 60), Absent),
      Element(Box(500, 200, 80, 30), Absent),
      Element(Box(100, 700, 80, 30), Absent),
      Element(Box(100, 500, 80, 30), Some(Container(0, 900))) }

\* element.boundingBox(): the box relative to the window win.
boundingBox(el, win) ==
    Box(el.box.x,
        el.box.y - (IF el.container = Absent THEN win.scrollY ELSE el.container[1].scrollTop),
        el.box.width, el.box.height)

\* isElementClickable(element), lines 280-357: the results it can return.  An
\* element whose rectangle lies off the window is not clickable; otherwise at
\* least half of the nine sample points (at 0.3, 0.5 and 0.7 of the box) must
\* hit the element, and only points inside the window hit anything.  Style,
\* disabled state and overlays are the page's business: they can always make
\* the answer false.
samplePointsInWindow(r, win) ==
    Cardinality({ f \in {3, 5, 7} \X {3, 5, 7} :
                    /\ 0 <= 10 * r.x + f[1] * r.width
                    /\ 10 * r.x + f[1] * r.width < 10 * win.width
                    /\ 0 <= 10 * r.y + f[2] * r.height
                    /\ 10 * r.y + f[2] * r.height < 10 * win.height })

isElementClickable(el, win) ==
    LET r == boundingBox(el, win) IN
    IF \/ r.y + r.height < 0 \/ r.x + r.width < 0
       \/ r.y > win.height \/ r.x > win.width
       \/ 2 * samplePointsInWindow(r, win) < 9
    THEN { FALSE }
    ELSE BOOLEAN

\* samplingPoints.length
samplingPointsLength == 9

\* The loop of lines 324-345 and the comparison of line 348.  hits[k] is what
\* document.elementFromPoint returned for sample point k: "null", "within" (el
\* itself or a node el contains) or "elsewhere".  The else branch walks the
\* ancestors of a node el does not contain and so never meets el.
sampledClickableFromFour(hits) ==
    LET n == Cardinality({ k \in DOMAIN hits : hits[k] = "within" })
    IN 2 * n >= Len(hits) - 1
sampledClickable(hits) ==
    LET counts(hit) == IF hit = "null" THEN 0
                       ELSE IF hit = "within" THEN 1
                       ELSE 0
        clickablePoints == Cardinality({ k \in DOMAIN hits : counts(hits[k]) = 1 })
    IN 2 * clickablePoints >= Len(hits)

\* getElementBoundingBox(element): the box, or null when every attempt failed
\* or the box was empty.
getElementBoundingBox(el, win) == { Some(boundingBox(el, win)), Absent }

\* isElementInViewport(element, buffer), given the box its read returned and the
\* viewport getViewport returned.
isElementInViewport(el, box, vp, win, buffer) ==
    IF box = Absent THEN FALSE
    ELSE LET b == box[1] IN
         IF el.container = Absent
         THEN /\ ~(b.y + b.height < vp.scrollY - buffer
                   \/ b.y > vp.scrollY + vp.height + buffer)
              /\ ~(b.x + b.width < 0 - buffer \/ b.x > vp.width + buffer)
         ELSE /\ ~(b.y + b.height < 0 - buffer \/ b.y > win.height + buffer)
              /\ ~(b.x + b.width < 0 - buffer \/ b.x > win.width + buffer)

\* scrollToElement, lines 607-680, targetPosition 'center': the current and the
\* target scroll offset.
scrollPlan(el, box, vp, win) ==
    IF el.container = Absent
    THEN [current |-> vp.scrollY,
          target |-> clamp(box.y + box.height \div 2 - vp.height \div 2, 0,
                           vp.documentHeight - vp.height)]
    ELSE [current |-> el.container[1].scrollTop,
          target |-> Max(0, Min(el.box.y - win.height \div 2 + box.height \div 2,
                                el.container[1].scrollHeight - win.height))]

\* Math.max(5, Math.round(8 * Math.log2(delta / 100 + 1)))
baseSteps(delta) == Max(5, RoundDiv(8 * Log2(delta + 100, 100), 1024))

\* 1 - Math.log10(1 + 9 * i / n), in 1/TScale (log2(10) * 1024 = 3402)
logDeceleration(i, n) == TScale - (Log2(n + 9 * i, n) * TScale) \div 3402

\* A scroll distance in units of 1/1000 divided by fatigueMultiplier.
OverFatigue(milli, fm) == (milli * 1000) \div (fm \div 10)

\* stepDelta of executeScrollSequence (lines 786-807) for step i of n, in whole
\* units; z is the z-score (tenths) of the jitter draw.
scrollStepDelta(remaining, i, n, overshoot, fm, z) ==
    LET progress == (i * TScale) \div n
        blended == (cubicEase(progress) * 6 + logDeceleration(i, n) * 4) \div 10
        base == OverFatigue((remaining * (TScale - blended) * 3) \div 10, fm)
        jitter == Gauss(z, Min(TimesFatigue(18000, fm), remaining * 120))
        step == clamp(base + jitter, 8000, 180000)
        extra == IF overshoot > 0 /\ 4 * i > 3 * n
                 THEN (overshoot * (4 * i - 3 * n) * 400) \div n
                 ELSE 0
    IN RoundDiv(step + extra, 1000)

\* stepDelta of executeCorrectionScrollLogarithmic (lines 859-866)
correctionStepDelta(remaining, i, n, fm, z) ==
    LET base == OverFatigue((remaining * logDeceleration(i, n) * 4) \div 10, fm)
        jitter == Gauss(z, TimesFatigue(9000, fm))
    IN RoundDiv(clamp(base + jitter, 8000, 130000), 1000)

\* overshootAmount (lines 706-707): clamp(gaussian(0.15, 0.07) * height, 40,
\* 0.35 * height); z in tenths.
scrollOvershootAmount(height, z) ==
    clamp((height * (150 + 7 * z)) \div 1000, 40, (height * 35) \div 100)

\* The page after page.mouse.wheel(0, delta) over a window-scrolled document.
wheelWindow(win, delta) ==
    [win EXCEPT !.scrollY = clamp(@ + delta, 0, Max(0, win.documentHeight - win.height))]

\* The element after its container ran el.scrollTop += delta.
scrollContainerBy(el, win, delta) ==
    [el EXCEPT !.container =
        Some([@[1] EXCEPT !.scrollTop =
                 clamp(@ + delta, 0, el.container[1].scrollHeight - win.height)])]


(***************************************************************************)
(* click: target and approach point                                        *)
(***************************************************************************)
\* calculateClickTarget(box, options) with clickPadding 0.68; zx, zy are the
\* z-scores (tenths) of its two Gaussian draws.
clickOffset(size, bias, fm, z) ==
    LET fatigueOffset == ((fm - Unit) * 15) \div 100
        g == bias + fatigueOffset + (z * ((2500 * fm) \div Unit)) \div 10
    IN RoundDiv(g * size * 68, 100 * Unit)

calculateClickTarget(box, fm, zx, zy) ==
    LET marginX == Min(8, box.width \div 10)
        marginY == Min(8, box.height \div 10)
    IN Pt(clamp(box.x + box.width \div 2 + clickOffset(box.width, -1000, fm, zx),
                box.x + marginX, box.x + box.width - marginX),
          clamp(box.y + box.height \div 2 + clickOffset(box.height, -500, fm, zy),
                box.y + marginY, box.y + box.height - marginY))

\* calculateNaturalApproachTarget(clickTarget, box, viewport).  a = [dist, cos,
\* sin, jitter]: the approach distance (25..60), cosine and sine (1/1000) of the
\* random angle (no lastPos) or of the angular jitter (|angle| <= 15 degrees),
\* and (Math.random() - 0.5) * 20.
calculateNaturalApproachTarget(clickTarget, vp, last, fm, a) ==
    IF last = Absent
    THEN clampToViewport(Pt(clickTarget.x + RoundDiv(a.cos * a.dist, 1000),
                            clickTarget.y + RoundDiv(a.sin * a.dist, 1000)), vp)
    ELSE LET dx == clickTarget.x - last[1].x
             dy == clickTarget.y - last[1].y
             d16 == Sqrt16(dx * dx + dy * dy)
             distance == IF d16 = 0 THEN 16 ELSE d16
             dirX == (dx * 16000) \div distance
             dirY == (dy * 16000) \div distance
             cosP == (dirX * a.cos - dirY * a.sin) \div 1000
             sinP == (dirY * a.cos + dirX * a.sin) \div 1000
             jitter == (a.jitter * fm) \div 10
         IN clampToViewport(
                Pt(clickTarget.x - RoundDiv(dirX * a.dist, 1000)
                                 + RoundDiv(cosP * jitter, 1000000),
                   clickTarget.y - RoundDiv(dirY * a.dist, 1000)
                                 + RoundDiv(sinP * jitter, 1000000)), vp)

\* Draws of one click: the two z-scores of the click target and the approach.
ClickDraws ==
    { [zx |-> 0, zy |-> 0, dist |-> 25, cos |-> 1000, sin |-> 0, jitter |-> 0],
      [zx |-> 30, zy |-> -30, dist |-> 60, cos |-> 966, sin |-> 259, jitter |-> 10] }

\* numPoints of the final adjustment: Math.max(3, Math.round(2 + Math.random() * 4))
FinalPointDraws == { 3, 6 }

\* postClickBehavior: stay; a jitter move (z-scores in tenths); a move away
\* (distance 35..115, cosine and sine of the angle in 1/1000).
PostClickDraws ==
    { [behavior |-> "pause", dx |-> 0, dy |-> 0],
      [behavior |-> "jitter", dx |-> 20, dy |-> -20],
      [behavior |-> "away", dx |-> 115, dy |-> 0] }

postClickTarget(clickTarget, vp, fm, b) ==
    IF b.behavior = "jitter"
    THEN clampToViewport(
             Pt(clickTarget.x + RoundDiv(Gauss(b.dx, TimesFatigue(6000, fm)), 1000),
                clickTarget.y + RoundDiv(Gauss(b.dy, TimesFatigue(6000, fm)), 1000)), vp)
    ELSE clampToViewport(Pt(clickTarget.x + b.dx, clickTarget.y + b.dy), vp)

(***************************************************************************)
(* waitForElementStability, lines 530-566: the position loop               *)
(***************************************************************************)
\* Iterations of the position loop before its deadline passes.
MaxStabilityReads == 5

requiredStableChecks == 3

\* What element.boundingBox() may return in the loop, in tenths of a unit: the
\* element at rest, drifting by 0.6 a read, jumping by exactly 1, growing by 1.
StabilityBoxes ==
    { Box(1000, 500, 800, 300), Box(1006, 500, 800, 300), Box(1012, 500, 800, 300),
      Box(1022, 500, 800, 300), Box(1000, 500, 800, 310) }

\* Lines 544-549: the four differences are all below 1.
closeToOrAtOne(box, last) ==
    /\ Abs(box.x - last.x) <= 10
    /\ Abs(box.y - last.y) <= 10
    /\ Abs(box.width - last.width) <= 10
    /\ Abs(box.height - last.height) <= 10
closeTo(box, last) ==
    /\ Abs(box.x - last.x) < 10
    /\ Abs(box.y - last.y) < 10
    /\ Abs(box.width - last.width) < 10
    /\ Abs(box.height - last.height) < 10

\* The locals of the loop (lines 530-533), with the iterations made, whether
\* the function has returned, whether from inside the loop, and what.
StabilityLocals ==
    [lastBox |-> Absent, stableCount |-> 0, iterations |-> 0, returned |-> FALSE,
     confirmed |-> FALSE, result |-> Absent]

\* One iteration of the loop (lines 536-562) on the locals st; r is the box
\* read, or Absent when boundingBox() returned null or threw (the iteration
\* then only delays).
stabilityIteration(st, r) ==
    LET seen == [st EXCEPT !.iterations = @ + 1] IN
    IF r = Absent THEN seen
    ELSE IF st.lastBox = Absent THEN [seen EXCEPT !.lastBox = r]
    ELSE IF closeTo(r[1], st.lastBox[1])
    THEN IF st.stableCount + 1 >= requiredStableChecks
         THEN [seen EXCEPT !.stableCount = @ + 1, !.returned = TRUE,
                           !.confirmed = TRUE, !.result = r]
         ELSE [seen EXCEPT !.stableCount = @ + 1, !.lastBox = r]
    ELSE [seen EXCEPT !.stableCount = 0, !.lastBox = r]

\* Line 566: the deadline has passed.
stabilityDeadline(st) == [st EXCEPT !.returned = TRUE, !.result = st.lastBox]


(***************************************************************************)
(* click and scrollToElement: locals                                       *)
(***************************************************************************)
\* Bound on the polls of the wait loop of click before its deadline passes.
MaxPolls == 2

\* Bound on the click / scrollToElement calls of one run.
MaxClicks == 1

\* Locals of scrollToElement.  path: "none" not called, "visible" / "short" the
\* early returns, "full" the scroll sequence was entered, "threw".
NoScroll ==
    [path |-> "none", viewport |-> Absent, current |-> 0, target |-> 0,
     direction |-> 0, numSteps |-> 0, i |-> 0, overshoot |-> 0]

\* Locals of a click (op = "click") or scrollToElement call, with the engine
\* state the call found (pre).
Frame(op, el) ==
    [active |-> TRUE, op |-> op, element |-> el,
     pre |-> [fatigue |-> Fatigue, lastPos |-> lastPos, moveHistory |-> moveHistory],
     polls |-> 0, sawClickable |-> FALSE, recheck |-> Absent, viewport |-> Absent,
     stability |-> StabilityLocals, box |-> Absent, clickTarget |-> Absent, preClickState |-> FALSE, scroll |-> NoScroll]

\* The operation throws Error(msg).
Fail(d, msg) ==
    /\ pc' = "failed"
    /\ driver' = [d EXCEPT !.error = msg]

(***************************************************************************)
(* click, lines 887-907: wait until clickable, stability, viewport         *)
(***************************************************************************)
\* A caller invokes click(element, options); wait = FALSE is waitTimeout 0.
CallClick ==
    /\ pc = "idle"
    /\ opsDone.clicks < MaxClicks
    /\ \E el \in ElementChoices, wait \in BOOLEAN :
        /\ call' = Frame("click", el)
        /\ pc' = IF wait THEN "click.poll" ELSE "click.check"
    /\ driver' = NewDriver("click")
    /\ opsDone' = [opsDone EXCEPT !.clicks = @ + 1]
    /\ UNCHANGED <<config, fatigueVars, motionVars, cacheVars, page, mv, probe>>

\* Line 895: the delay of an iteration of the wait loop has elapsed; the time
\* since startTime, counted in delays.  After MaxPolls of them waitTimeout has
\* elapsed.
elapsedAfterDelayWrapping(polls) == (polls + 1) % MaxPolls
elapsedAfterDelay(polls) == polls + 1

\* One iteration of the wait loop (lines 891-896): a poll of isElementClickable,
\* and, after the delay, whether the deadline has passed.
ClickPoll ==
    /\ pc = "click.poll"
    /\ \E clickable \in isElementClickable(call.element, page), expired \in BOOLEAN :
        IF clickable
        THEN /\ expired
             /\ call' = [call EXCEPT !.sawClickable = TRUE, !.polls = 0]
             /\ pc' = "click.check"
        ELSE /\ (elapsedAfterDelay(call.polls) >= MaxPolls) => expired
             /\ call' = [call EXCEPT !.polls = IF expired THEN 0
                                               ELSE elapsedAfterDelay(@)]
             /\ pc' = IF expired THEN "click.check" ELSE "click.poll"
    /\ UNCHANGED <<config, fatigueVars, motionVars, cacheVars, page, mv, driver,
                   opsDone, probe>>

\* Where click continues after the check of lines 898-900.
afterCheckIgnored(clickable) == "click.stability"
afterCheck(clickable) == IF clickable THEN "click.stability" ELSE "failed"

\* Lines 898-900: the check after the loop.
ClickCheck ==
    /\ pc = "click.check"
    /\ \E clickable \in isElementClickable(call.element, page) :
        /\ call' = [call EXCEPT !.sawClickable = @ \/ clickable]
        /\ pc' = afterCheck(clickable)
        /\ driver' = IF clickable THEN driver
                     ELSE [driver EXCEPT !.error = "Element is not clickable"]
    /\ UNCHANGED <<config, fatigueVars, motionVars, cacheVars, page, mv, opsDone, probe>>

\* Lines 902-905: waitForElementStability(element, stabilityTimeout), a step
\* at a time.  The element.evaluate of its line 473, which is awaited at line
\* 524 outside any try, may reject.  Otherwise its loop makes one more
\* iteration, or its deadline has passed; when it returns, click throws if it
\* returned null (the locals of the loop are then gone).
ClickStability ==
    /\ pc = "click.stability"
    /\ \/ /\ call.stability.iterations = 0
          /\ Fail(driver, "element.evaluate rejected")
          /\ UNCHANGED call
       \/ /\ call.stability.iterations < MaxStabilityReads
          /\ \E r \in { Some(b) : b \in StabilityBoxes } \cup { Absent } :
              LET st == stabilityIteration(call.stability, r)
              IN /\ call' = [call EXCEPT !.stability = IF st.returned THEN StabilityLocals
                                                       ELSE st]
                 /\ pc' = IF st.returned THEN "click.viewport" ELSE pc
          /\ UNCHANGED driver
       \/ /\ call' = [call EXCEPT !.stability = StabilityLocals]
          /\ IF stabilityDeadline(call.stability).result = Absent
             THEN Fail(driver, "Element position is unstable")
             ELSE pc' = "click.viewport" /\ UNCHANGED driver
    /\ UNCHANGED <<config, fatigueVars, motionVars, cacheVars, page, mv, opsDone, probe>>

\* Line 907: const viewport = await this.getViewport()
ClickViewport ==
    /\ pc = "click.viewport"
    /\ \E gv \in getViewport :
        /\ SetCache(gv)
        /\ call' = [call EXCEPT !.viewport = Some(gv.viewport)]
    /\ pc' = "scroll.start"
    /\ UNCHANGED <<config, fatigueVars, motionVars, page, mv, driver, opsDone, probe>>


(***************************************************************************)
(* scrollToElement, lines 589-737                                          *)
(***************************************************************************)
\* A caller invokes scrollToElement(element, options).
CallScrollToElement ==
    /\ pc = "idle"
    /\ opsDone.clicks < MaxClicks
    /\ \E el \in ElementChoices : call' = Frame("scrollToElement", el)
    /\ pc' = "scroll.start"
    /\ driver' = NewDriver("scrollToElement")
    /\ opsDone' = [opsDone EXCEPT !.clicks = @ + 1]
    /\ UNCHANGED <<config, fatigueVars, motionVars, cacheVars, page, mv, probe>>

\* Where control goes when scrollToElement returns: click continues at line
\* 913; a direct call is over.
AfterScroll == IF call.op = "click" THEN "click.box" ELSE "done"

\* The frame once scrollToElement has returned or thrown.
ScrollExit(c, path) == [c EXCEPT !.scroll = [NoScroll EXCEPT !.path = path]]

\* scrollToElement throws: click catches it (lines 909-913), a direct caller
\* receives it.
ScrollThrows(d, msg) ==
    /\ pc' = IF call.op = "click" THEN "click.box" ELSE "failed"
    /\ driver' = IF call.op = "click" THEN d ELSE [d EXCEPT !.error = msg]

\* The result of page.mouse.wheel(0, delta) on the page and on the element.
wheelPage(delta) == IF call.element.container = Absent THEN wheelWindow(page, delta) ELSE page
wheelElement(delta) ==
    IF call.element.container = Absent THEN call.element
    ELSE scrollContainerBy(call.element, page, delta)

\* microScroll of the visible branch: 0 stands for no scroll at all, otherwise
\* randomGaussian(0, 12) at one standard deviation below and at two above.
MicroScrollDraws == { 0, -12, 24 }

\* Lines 590-599: the viewport, the visibility test and the early return.
\* isElementInViewport, once it has a box, calls getScrollContainer, which
\* obtains a handle and disposes it itself unless it names a container (lines
\* 185-243); the handle of a container is disposed after the visibility
\* evaluation (lines 378-408), which may reject: the test then answers false
\* from its catch (lines 414-417).
ScrollStart ==
    /\ pc = "scroll.start"
    /\ \E gv \in getViewport, b \in getElementBoundingBox(call.element, page) :
       \E evaluated \in (IF b # Absent /\ call.element.container # Absent
                          THEN BOOLEAN ELSE { TRUE }) :
        LET d == IF b = Absent THEN driver
                 ELSE [driver EXCEPT !.handles = @ + 1,
                                     !.disposed = IF evaluated THEN @ + 1 ELSE @]
        IN
        /\ SetCache(gv)
        /\ IF evaluated /\ isElementInViewport(call.element, b, gv.viewport, page, 50)
           THEN \E micro \in MicroScrollDraws, ok \in BOOLEAN :
                  IF micro = 0
                  THEN /\ ok
                       /\ pc' = AfterScroll
                       /\ call' = ScrollExit(call, "visible")
                       /\ driver' = d
                       /\ UNCHANGED page
                  ELSE IF ok
                  THEN /\ pc' = AfterScroll
                       /\ driver' = MouseWheel(d, micro)
                       /\ page' = wheelPage(micro)
                       /\ call' = ScrollExit([call EXCEPT !.element = wheelElement(micro)],
                                             "visible")
                  ELSE /\ ScrollThrows(MouseWheel(d, micro), "page.mouse.wheel rejected")
                       /\ call' = ScrollExit(call, "threw")
                       /\ UNCHANGED page
           ELSE /\ pc' = "scroll.box"
                /\ call' = [call EXCEPT !.scroll.path = "hidden",
                                        !.scroll.viewport = Some(gv.viewport)]
                /\ driver' = d
                /\ UNCHANGED page
    /\ UNCHANGED <<config, fatigueVars, motionVars, mv, opsDone, probe>>

\* Lines 601-682 and 743-745: the box, the scroll container (its handle is kept
\* when it names a container), the current and target offsets, which for a
\* container are read by an element.evaluate that may reject; then
\* preScrollMouseMovement initialises lastPos if absent.
ScrollBox ==
    /\ pc = "scroll.box"
    /\ \E b \in getElementBoundingBox(call.element, page) :
       \E evaluated \in (IF b # Absent /\ call.element.container # Absent
                          THEN BOOLEAN ELSE { TRUE }) :
        IF b = Absent
        THEN /\ ScrollThrows(driver, "Element has no bounding box")
             /\ call' = ScrollExit(call, "threw")
             /\ UNCHANGED lastPos
        ELSE IF ~evaluated
        THEN /\ ScrollThrows([driver EXCEPT !.handles = @ + 1], "element.evaluate rejected")
             /\ call' = ScrollExit(call, "threw")
             /\ UNCHANGED lastPos
        ELSE LET plan == scrollPlan(call.element, b[1], call.scroll.viewport[1], page)
             IN /\ pc' = "scroll.hover"
                /\ call' = [call EXCEPT !.scroll.current = plan.current,
                                        !.scroll.target = plan.target]
                /\ \E ip \in (IF lastPos = Absent THEN InitDraws ELSE {[rx |-> 0, ry |-> 0]}) :
                     lastPos' = IF lastPos = Absent
                                THEN Some(initializePosition(call.scroll.viewport[1], ip))
                                ELSE lastPos
                /\ driver' = [driver EXCEPT
                                 !.handles = @ + 1,
                                 !.disposed = IF call.element.container = Absent
                                              THEN @ + 1 ELSE @]
    /\ UNCHANGED <<config, fatigueVars, moveHistory, cacheVars, page, mv, opsDone, probe>>

\* hoverTarget (lines 747-750); rx, ry are the Math.random() draws (1/1000).
HoverDraws == { [rx |-> 0, ry |-> 0], [rx |-> 999, ry |-> 999] }

hoverTarget(vp, d) ==
    Pt((vp.width * (250 + d.rx \div 2)) \div 1000,
       (vp.height * (150 + (d.ry * 7) \div 10)) \div 1000)

\* Lines 747-759: the hover move of preScrollMouseMovement, made when the
\* pointer is more than 60 away from the hover target.
ScrollHover ==
    /\ pc = "scroll.hover"
    /\ \E d \in HoverDraws, gv \in getViewport :
        LET target == hoverTarget(call.scroll.viewport[1], d)
            distance == calculateDistance(lastPos[1], target)
        IN IF distance > 60
           THEN StartMoveToPosition(target,
                                    Options(Some(Max(6, RoundDiv(distance, 60))), FALSE),
                                    gv, "scroll.delta")
           ELSE /\ pc' = "scroll.delta"
                /\ UNCHANGED <<config, fatigueVars, motionVars, cacheVars, page, mv, probe>>
    /\ UNCHANGED <<driver, opsDone, call>>

\* Whether Math.random() < overshootProb, and the z-score of overshootAmount.
ScrollOvershootDraws == { [want |-> FALSE, z |-> 0], [want |-> TRUE, z |-> 0] }

\* Lines 684-708: a delta below 10 ends the call, the handle of a container
\* being disposed first; otherwise the step count (through applyFatigue) and
\* the overshoot are decided.
ScrollDelta ==
    /\ pc = "scroll.delta"
    /\ LET delta == Abs(call.scroll.target - call.scroll.current)
           after == applyFatigueState(Fatigue, config)
       IN IF delta < 10
          THEN /\ pc' = AfterScroll
               /\ call' = ScrollExit(call, "short")
               /\ driver' = IF call.element.container = Absent THEN driver
                            ELSE [driver EXCEPT !.disposed = @ + 1]   \* lines 686-688
               /\ UNCHANGED fatigueVars
          ELSE \E o \in ScrollOvershootDraws :
               /\ (delta <= 250 \/ after.attentionSpan >= 9400) => ~o.want
               /\ SetFatigue(after)
               /\ UNCHANGED driver
               /\ pc' = "scroll.step"
               /\ call' = [call EXCEPT
                     !.scroll.path = "full",
                     !.scroll.direction =
                         IF call.scroll.target > call.scroll.current THEN 1 ELSE -1,
                     !.scroll.numSteps = applyFatigue(baseSteps(delta), Fatigue, config),
                     !.scroll.i = 1,
                     !.scroll.overshoot =
                         IF o.want
                         THEN scrollOvershootAmount(call.scroll.viewport[1].height, o.z)
                         ELSE 0]
    /\ UNCHANGED <<config, motionVars, cacheVars, page, mv, opsDone, probe>>


\* The offset the scroll loops read back: window.scrollY or the container's
\* scrollTop.
currentScrollOf(el, win) ==
    IF el.container = Absent THEN win.scrollY ELSE el.container[1].scrollTop

\* Jitter z-scores (tenths) tried at step i, and whether the 18% micro mouse
\* adjustment is tried after it.
ScrollJitterDraws(i) == IF i = 2 THEN { 0, 20 } ELSE { 0 }
MicroAdjustDraws(i) == IF i = 1 THEN BOOLEAN ELSE { FALSE }

\* Whether the wheel call of step i may reject.
WheelDraws(i) == IF i = 3 THEN BOOLEAN ELSE { TRUE }

\* One scroll step applied: the wheel call (window) or the scrollTop update
\* (container), then possibly microMouseAdjustment.  ok: the wheel call, or the
\* containerHandle.evaluate, returned; otherwise the rejection leaves
\* scrollToElement from inside the loop.
ScrollBy(step, ok, adj, next) ==
    LET window == call.element.container = Absent
        d == IF window THEN MouseWheel(driver, step) ELSE driver
    IN IF ~ok
       THEN /\ ~adj
            /\ ScrollThrows(d, IF window THEN "page.mouse.wheel rejected"
                                ELSE "containerHandle.evaluate rejected")
            /\ call' = ScrollExit(call, "threw")
            /\ UNCHANGED <<page, cacheVars>>
       ELSE /\ ok
            /\ page' = wheelPage(step)
            /\ call' = [call EXCEPT !.element = wheelElement(step), !.scroll.i = @ + 1]
            /\ pc' = next
            /\ IF adj
               THEN microMouseAdjustment(d)
               ELSE driver' = d /\ UNCHANGED cacheVars

\* Lines 730-733, after the scroll sequences: the handle of a container is
\* disposed.
disposeContainerHandle ==
    IF call.element.container = Absent THEN driver
    ELSE [driver EXCEPT !.disposed = @ + 1]

\* One iteration of the loop of executeScrollSequence (lines 769-829), or its
\* exit.
ScrollStep ==
    /\ pc = "scroll.step"
    /\ LET sc == call.scroll
           remaining == Abs(sc.target - currentScrollOf(call.element, page))
       IN IF sc.i > sc.numSteps \/ remaining < 8
          THEN /\ pc' = IF sc.overshoot > 0 THEN "scroll.correct" ELSE "scroll.finish"
               /\ call' = [call EXCEPT !.scroll.i = 1]
               /\ driver' = IF sc.overshoot > 0 THEN driver ELSE disposeContainerHandle
               /\ UNCHANGED <<page, cacheVars>>
          ELSE \E z \in ScrollJitterDraws(sc.i), ok \in WheelDraws(sc.i),
                  adj \in MicroAdjustDraws(sc.i) :
                 ScrollBy(sc.direction * scrollStepDelta(remaining, sc.i, sc.numSteps,
                                                         sc.overshoot, fatigueMultiplier, z),
                          ok, adj, "scroll.step")
    /\ UNCHANGED <<config, fatigueVars, motionVars, mv, opsDone, probe>>

\* Math.max(3, Math.round(numSteps / 3))
correctionSteps(numSteps) == Max(3, RoundDiv(numSteps, 3))

\* One iteration of the loop of executeCorrectionScrollLogarithmic (lines
\* 839-881), or its exit.
ScrollCorrect ==
    /\ pc = "scroll.correct"
    /\ LET sc == call.scroll
           n == correctionSteps(sc.numSteps)
           remaining == Abs(sc.target - currentScrollOf(call.element, page))
       IN IF sc.i > n \/ remaining < 8
          THEN /\ pc' = "scroll.finish"
               /\ call' = [call EXCEPT !.scroll.i = 1]
               /\ driver' = disposeContainerHandle
               /\ UNCHANGED <<page, cacheVars>>
          ELSE \E z \in ScrollJitterDraws(sc.i), ok \in WheelDraws(sc.i + 1) :
                 ScrollBy(-sc.direction * correctionStepDelta(remaining, sc.i, n,
                                                              fatigueMultiplier, z),
                          ok, FALSE, "scroll.correct")
    /\ UNCHANGED <<config, fatigueVars, motionVars, mv, opsDone, probe>>

\* Lines 730-736: the end of scrollToElement: this.updateActionCount().
ScrollFinish ==
    /\ pc = "scroll.finish"
    /\ RecordAction
    /\ pc' = AfterScroll
    /\ call' = ScrollExit(call, "full")
    /\ UNCHANGED <<config, motionVars, cacheVars, page, mv, opsDone, probe>>

(***************************************************************************)
(* click, lines 913-1006                                                   *)
(***************************************************************************)
\* Lines 915-934: the box, the click target and the approach move.
ClickBox ==
    /\ pc = "click.box"
    /\ \E b \in getElementBoundingBox(call.element, page) :
        IF b = Absent
        THEN /\ Fail(driver, "Element bounding box unavailable")
             /\ UNCHANGED <<config, fatigueVars, motionVars, cacheVars, page, mv, probe, call>>
        ELSE \E r \in ClickDraws, gv \in getViewport :
             LET clickTarget == clampToViewport(
                     calculateClickTarget(b[1], fatigueMultiplier, r.zx, r.zy),
                     call.viewport[1])
                 approachTarget == calculateNaturalApproachTarget(
                     clickTarget, call.viewport[1], lastPos, fatigueMultiplier, r)
             IN /\ StartMoveToPosition(approachTarget, Options(Absent, TRUE), gv,
                                       "click.final")
                /\ call' = [call EXCEPT !.box = b, !.clickTarget = Some(clickTarget)]
                /\ UNCHANGED driver
    /\ UNCHANGED opsDone

\* The page's layout changes while click awaits the delay of line 936: the
\* element moves down by 40.
LayoutShift ==
    /\ pc = "click.final"
    /\ call.box = Some(boundingBox(call.element, page))
    /\ call' = [call EXCEPT !.element.box.y = @ + 40]
    /\ UNCHANGED <<config, fatigueVars, motionVars, cacheVars, page, pc, mv, driver,
                   opsDone, probe>>

\* Lines 936-941: the final adjustment move.
ClickFinal ==
    /\ pc = "click.final"
    /\ \E k \in FinalPointDraws, gv \in getViewport :
        StartMoveToPosition(call.clickTarget[1], Options(Some(k), FALSE), gv,
                            "click.recheck")
    /\ UNCHANGED <<driver, opsDone, call>>

\* Where click continues after the check of lines 943-945.
afterRecheckIgnored(clickable) == "click.preState"
afterRecheck(clickable) == IF clickable THEN "click.preState" ELSE "failed"

\* Lines 943-945: isElementClickable once more.
ClickRecheck ==
    /\ pc = "click.recheck"
    /\ \E clickable \in isElementClickable(call.element, page) :
        /\ call' = [call EXCEPT !.recheck = Some(clickable)]
        /\ pc' = afterRecheck(clickable)
        /\ driver' = IF clickable THEN driver
                     ELSE [driver EXCEPT !.error = "Element became unclickable"]
    /\ UNCHANGED <<config, fatigueVars, motionVars, cacheVars, page, mv, opsDone, probe>>

\* Lines 948-959: element.evaluate for the pre-click state: a state, null, or
\* the driver call rejects.
ClickPreState ==
    /\ pc = "click.preState"
    /\ \E r \in {"state", "null", "rejected"} :
        IF r = "rejected"
        THEN Fail(driver, "element.evaluate rejected") /\ UNCHANGED call
        ELSE /\ call' = [call EXCEPT !.preClickState = (r = "state")]
             /\ pc' = "click.down"
             /\ UNCHANGED driver
    /\ UNCHANGED <<config, fatigueVars, motionVars, cacheVars, page, mv, opsDone, probe>>


\* Where click goes when page.mouse.down or page.mouse.up throws (lines
\* 968-970): it throws 'Click failed: ...'.
pressRetried == "click.down"
pressFailed == "failed"

\* Line 965: page.mouse.down(); ok: the call returned.
ClickDown ==
    /\ pc = "click.down"
    /\ \E ok \in BOOLEAN :
        /\ driver' = [driver EXCEPT !.downs = @ + 1, !.downReturned = @ \/ ok,
                                    !.error = IF ok THEN @ ELSE "Click failed"]
        /\ pc' = IF ok THEN "click.up" ELSE pressFailed
    /\ UNCHANGED <<config, fatigueVars, motionVars, cacheVars, page, mv, opsDone,
                   probe, call>>

\* Lines 966-967: the hold delay, then page.mouse.up().
ClickUp ==
    /\ pc = "click.up"
    /\ \E ok \in BOOLEAN :
        /\ driver' = [driver EXCEPT !.ups = @ + 1, !.upReturned = @ \/ ok,
                                    !.error = IF ok THEN @ ELSE "Click failed"]
        /\ pc' = IF ok THEN "click.validate" ELSE pressFailed
    /\ UNCHANGED <<config, fatigueVars, motionVars, cacheVars, page, mv, opsDone,
                   probe, call>>

\* Lines 973-1002: the post-click element.evaluate (made when a pre-click state
\* was read; it may reject), then postClickBehavior up to its move.
ClickValidate ==
    /\ pc = "click.validate"
    /\ \E r \in (IF call.preClickState THEN {"state", "rejected"} ELSE {"state"}),
          b \in PostClickDraws, gv \in getViewport :
        IF r = "rejected"
        THEN /\ b.behavior = "pause"
             /\ Fail(driver, "element.evaluate rejected")
             /\ UNCHANGED <<config, fatigueVars, motionVars, cacheVars, page, mv, probe>>
        ELSE IF b.behavior = "pause"
        THEN /\ pc' = "click.record"
             /\ UNCHANGED <<config, fatigueVars, motionVars, cacheVars, page, mv, probe,
                            driver>>
        ELSE /\ StartMoveToPosition(
                    postClickTarget(call.clickTarget[1], call.viewport[1],
                                    fatigueMultiplier, b),
                    IF b.behavior = "jitter" THEN Options(Some(2), FALSE) ELSE DefaultOptions,
                    gv, "click.record")
             /\ UNCHANGED driver
    /\ UNCHANGED <<opsDone, call>>

\* Lines 1004-1005: this.lastPos = clickTarget; this.updateActionCount()
ClickRecord ==
    /\ pc = "click.record"
    /\ lastPos' = call.clickTarget
    /\ RecordAction
    /\ pc' = "done"
    /\ UNCHANGED <<config, moveHistory, cacheVars, page, mv, opsDone, probe, call>>

(***************************************************************************)
(* Specification of the engine: click and scrollToElement                  *)
(***************************************************************************)
\* The window at the top of the document, or scrolled down by the user.
Init ==
    InitEngine({DefaultConfig}, {8800},
               { Window(400, 300, 0, 1200, FALSE), Window(400, 300, 150, 1200, FALSE) })

Next ==
    \/ CallClick
    \/ ClickPoll
    \/ ClickCheck
    \/ ClickStability
    \/ ClickViewport
    \/ CallScrollToElement
    \/ ScrollStart
    \/ ScrollBox
    \/ ScrollHover
    \/ ScrollDelta
    \/ ScrollStep
    \/ ScrollCorrect
    \/ ScrollFinish
    \/ ClickBox
    \/ LayoutShift
    \/ ClickFinal
    \/ ClickRecheck
    \/ ClickPreState
    \/ ClickDown
    \/ ClickUp
    \/ ClickValidate
    \/ ClickRecord
    \/ CallMove
    \/ MoveSample(FALSE)
    \/ MoveFinish
    \/ MoveRecord
    \/ Return

Spec == Init /\ [][Next]_vars

\* The same operations on a window that may be widened between two of them.
InitResize == InitEngine({DefaultConfig}, {8800}, { Window(400, 300, 0, 1200, FALSE) })

NextResize == Next \/ WindowGrows

SpecResize == InitResize /\ [][NextResize]_vars

\* Every driver call returns or throws in finite time and every delay elapses:
\* an operation that is running takes its next step, and one that has finished
\* returns to its caller.  The first is weak fairness of the steps of a running
\* operation, written out as "infinitely often not enabled, or infinitely
\* often taken": such a step is enabled exactly while an operation is running,
\* and every step that changes the state is one of Next.
RunningOperationAdvances ==
    []<>(pc \in {"idle", "done", "failed"}) \/ []<><<TRUE>>_vars

SpecLive == Init /\ [][Next]_vars /\ WF_vars(Return) /\ RunningOperationAdvances


(***************************************************************************)
(* Claims about click                                                      *)
(***************************************************************************)
\* C2: while every isElementClickable poll of a click has returned false, the
\* click is still in its wait loop or has thrown 'Element is not clickable';
\* it has issued no page.mouse.move, wheel, down or up, and actionCount,
\* attentionSpan, fatigueMultiplier, lastPos and moveHistory are as the call
\* found them.
C2_NeverClickableAborts ==
    (driver.op = "click" /\ ~call.sawClickable) =>
        /\ pc \in {"click.poll", "click.check", "failed"}
        /\ pc = "failed" => driver.error = "Element is not clickable"
        /\ ~driver.moved /\ ~driver.wheeled
        /\ driver.downs = 0 /\ driver.ups = 0
        /\ Fatigue = call.pre.fatigue
        /\ lastPos = call.pre.lastPos
        /\ moveHistory = call.pre.moveHistory

\* A click on an engine that has already moved the pointer gave up after polls
\* that all returned false.
C2_Witness ==
    /\ driver.op = "click"
    /\ pc = "failed"
    /\ ~call.sawClickable
    /\ call.pre.lastPos # Absent

\* C3: page.mouse.down is issued only if the isElementClickable check after the
\* final adjustment returned true; if it returned false the click has thrown
\* 'Element became unclickable' and issued neither down nor up.
C3_PressOnlyAfterRecheck ==
    /\ driver.downs > 0 => (call.active /\ call.recheck = Some(TRUE))
    /\ (call.active /\ call.recheck = Some(FALSE)) =>
           /\ pc = "failed"
           /\ driver.error = "Element became unclickable"
           /\ driver.downs = 0 /\ driver.ups = 0

\* The check after the final adjustment failed, after the pointer was moved.
C3_Witness ==
    /\ call.active
    /\ call.recheck = Some(FALSE)
    /\ driver.moved

\* C4: in one click, down and up are each issued at most once, up only after
\* down returned, no move or wheel goes between them, and a down or up that
\* throws makes the click throw 'Click failed' with no further press or release.
C4_SinglePressAndRelease ==
    /\ driver.downs <= 1 /\ driver.ups <= 1
    /\ driver.ups > 0 => driver.downReturned
    /\ ~driver.held
    /\ ((driver.downs > 0 /\ ~driver.downReturned)
          \/ (driver.ups > 0 /\ ~driver.upReturned)) =>
           (pc = "failed" /\ driver.error = "Click failed")

\* page.mouse.up threw after page.mouse.down had returned.
C4_Witness ==
    /\ driver.op = "click"
    /\ driver.downReturned
    /\ driver.ups = 1
    /\ ~driver.upReturned

\* C28: when scrollToElement overshoots, the main scroll sequence ends with the
\* offset beyond the target in the scroll direction, the corrective sequence
\* has fewer steps than the main one, and every corrective step strictly
\* reduces the distance between the offset and the target.
C28_OvershootThenConverge ==
    [][LET sc == call.scroll
           current == currentScrollOf(call.element, page)
       IN /\ (pc = "scroll.step" /\ pc' = "scroll.correct") =>
                 /\ sc.direction * (current - sc.target) > 0
                 /\ correctionSteps(sc.numSteps) < sc.numSteps
          /\ (pc = "scroll.correct" /\ pc' = "scroll.correct") =>
                 Abs(sc.target - currentScrollOf(call.element', page'))
                     < Abs(sc.target - current)]_vars

(***************************************************************************)
(* isElementClickable under direct calls                                   *)
(***************************************************************************)
\* await this.isElementClickable(element).  evaluate: "rejects" (the driver
\* call fails), "refused" (one of the checks of lines 284-307 returns false) or
\* "sampled" (the sample points decide).  The probe keeps the inputs and the
\* value returned; one call is followed.
CallIsElementClickable ==
    /\ pc = "idle"
    /\ probe = Absent
    /\ \E evaluate \in {"rejects", "refused", "sampled"},
          hits \in [1 .. samplingPointsLength -> {"null", "within", "elsewhere"}] :
        probe' = << [kind |-> "isElementClickable", evaluate |-> evaluate, hits |-> hits,
                     value |-> evaluate = "sampled" /\ sampledClickable(hits)] >>
    /\ UNCHANGED <<config, fatigueVars, motionVars, cacheVars, page, pc, mv, driver,
                   opsDone, call>>

InitSampling == InitEngine({DefaultConfig}, {8800}, { Window(400, 300, 0, 1200, FALSE) })

NextSampling == CallIsElementClickable

SpecSampling == InitSampling /\ [][NextSampling]_vars

\* The sample points of the probe that resolved to the element or inside it.
PointsWithin == { k \in 1 .. samplingPointsLength : probe[1].hits[k] = "within" }

InVisibleArea(el, win) ==
    LET b == boundingBox(el, win)
    IN /\ b.y >= 0 /\ b.y + b.height <= win.height
       /\ b.x >= 0 /\ b.x + b.width <= win.width

\* C29: after the main scroll sequence and any correction, scrollToElement
\* issues a final micro-adjustment of one to three wheel steps, each of
\* magnitude at most 50, if the target is not inside the visible area, and none
\* if it is.
C29_FinalMicroAdjustment ==
    [][(pc = "scroll.finish" /\ pc' # "scroll.finish") =>
         LET steps == driver'.wheels - driver.wheels
         IN IF InVisibleArea(call.element, page)
            THEN steps = 0
            ELSE steps \in 1..3 /\ Abs(driver'.lastWheel) <= 50]_vars

\* C13: when scrollToElement returns through its visible branch it has issued
\* at most one page.mouse.wheel call, of magnitude below 20, no pointer move,
\* and has recorded no action.
C13_VisibleTargetMicroScroll ==
    (call.active /\ call.scroll.path = "visible" /\ pc \in {"done", "click.box"}) =>
        /\ driver.wheels <= 1
        /\ driver.wheels = 1 => Abs(driver.lastWheel) < 20
        /\ ~driver.moved
        /\ driver.recorded = 0

\* C34: when click completes, lastPos is the destination of the last pointer
\* trajectory executed during that click (the last entry of moveHistory), the
\* trajectory of the post-click behaviour included.
C34_LastPosIsLastDestination ==
    (driver.op = "click" /\ pc = "done") =>
        /\ moveHistory # << >>
        /\ lastPos = Some(moveHistory[Len(moveHistory)])

\* C35: click throws 'Element is not clickable' only on timeout: not when a
\* poll of isElementClickable in its wait loop returned true.
C35_NotClickableOnlyOnTimeout ==
    (driver.op = "click" /\ pc = "failed" /\ driver.error = "Element is not clickable") =>
        ~call.sawClickable

\* C37: when a click call throws, actionCount, attentionSpan and
\* fatigueMultiplier are as the call found them.
C37_AbortedClickLeavesFatigue ==
    (driver.op = "click" /\ pc = "failed") => Fatigue = call.pre.fatigue

\* C38: every handle getScrollContainer obtained from element.evaluateHandle
\* has been disposed, once, when the scrollToElement call that led to it has
\* returned or thrown.
C38_HandlesDisposed ==
    /\ driver.disposed <= driver.handles
    /\ (driver.op \in {"click", "scrollToElement"} /\ pc \in {"click.box", "done", "failed"}) =>
           driver.disposed = driver.handles

\* C9: a click that completed has invoked updateActionCount exactly once.
C9_ExactlyOneAction ==
    (driver.op = "click" /\ pc = "done") => driver.recorded = 1

\* C17: a click that throws throws one of 'Element is not clickable',
\* 'Element position is unstable', 'Element bounding box unavailable',
\* 'Element became unclickable' and 'Click failed: ...'; no rejection of a driver
\* call reaches the caller as it is.
C17_OnlyNamedAbortReasons ==
    (driver.op = "click" /\ pc = "failed") =>
        driver.error \in { "Element is not clickable", "Element position is unstable",
                           "Element bounding box unavailable",
                           "Element became unclickable", "Click failed" }

\* C18: the box a pointer destination was computed from is never used after an
\* await that follows its read: when click starts its final move, the box its
\* destination was computed from is the box the element has.
C18_NoBoxAcrossAwait ==
    [][(pc = "click.final" /\ pc' = "moving") =>
           call.box = Some(boundingBox(call.element, page))]_vars


(***************************************************************************)
(* waitForElementStability under direct calls                              *)
(***************************************************************************)
\* A caller invokes waitForElementStability(element, timeout).  The probe
\* holds the locals of the loop and, as log, what its reads returned.
CallWaitForElementStability ==
    /\ pc = "idle"
    /\ probe' = << [kind |-> "stability", log |-> << >>, st |-> StabilityLocals] >>
    /\ pc' = "stability.loop"
    /\ driver' = NewDriver("waitForElementStability")
    /\ UNCHANGED <<config, fatigueVars, motionVars, cacheVars, page, mv, opsDone, call>>

\* The deadline has not passed (line 535): one more iteration.
StabilityRead ==
    /\ pc = "stability.loop"
    /\ probe[1].st.iterations < MaxStabilityReads
    /\ \E r \in { Some(b) : b \in StabilityBoxes } \cup { Absent } :
        LET st == stabilityIteration(probe[1].st, r)
        IN /\ probe' = << [probe[1] EXCEPT !.st = st, !.log = Append(@, r)] >>
           /\ pc' = IF st.returned THEN "done" ELSE "stability.loop"
    /\ UNCHANGED <<config, fatigueVars, motionVars, cacheVars, page, mv, driver,
                   opsDone, call>>

\* The deadline has passed (line 535; it may have passed before the first
\* iteration, the checks of lines 453-524 having used up the timeout): line 566.
StabilityDeadline ==
    /\ pc = "stability.loop"
    /\ probe' = << [probe[1] EXCEPT !.st = stabilityDeadline(@)] >>
    /\ pc' = "done"
    /\ UNCHANGED <<config, fatigueVars, motionVars, cacheVars, page, mv, driver,
                   opsDone, call>>

InitStability == InitEngine({DefaultConfig}, {8800}, { Window(400, 300, 0, 1200, FALSE) })

NextStability ==
    \/ CallWaitForElementStability
    \/ StabilityRead
    \/ StabilityDeadline
    \/ Return

SpecStability == InitStability /\ [][NextStability]_vars

\* The successful reads of a log, in order.
Successful(log) == SelectSeq(log, LAMBDA e : e # Absent)

\* The last k + 1 boxes of sq exist and each is within 1 unit of the one
\* before it.
RECURSIVE LastStepsClose(_, _)
LastStepsClose(sq, k) ==
    IF k = 0 THEN Len(sq) >= 1
    ELSE /\ Len(sq) >= 2
         /\ Abs(sq[Len(sq)][1].x - sq[Len(sq) - 1][1].x) < 10
         /\ Abs(sq[Len(sq)][1].y - sq[Len(sq) - 1][1].y) < 10
         /\ Abs(sq[Len(sq)][1].width - sq[Len(sq) - 1][1].width) < 10
         /\ Abs(sq[Len(sq)][1].height - sq[Len(sq) - 1][1].height) < 10
         /\ LastStepsClose(SubSeq(sq, 1, Len(sq) - 1), k - 1)

\* The last three boxes of sq exist and differ from one another by less than 1.
LastThreeAlike(sq) ==
    /\ Len(sq) >= 3
    /\ \A i, j \in (Len(sq) - 2) .. Len(sq) :
          /\ Abs(sq[i][1].x - sq[j][1].x) < 10
          /\ Abs(sq[i][1].y - sq[j][1].y) < 10
          /\ Abs(sq[i][1].width - sq[j][1].width) < 10
          /\ Abs(sq[i][1].height - sq[j][1].height) < 10

\* C36: for a target whose bounding box is available and the same on every
\* read, waitForElementStability returns a box, whatever time the checks made
\* before its loop have taken.
C36_SteadyBoxIsReturned ==
    (/\ probe # Absent
     /\ probe[1].kind = "stability"
     /\ probe[1].st.returned
     /\ \E b \in StabilityBoxes :
            \A i \in 1 .. Len(probe[1].log) : probe[1].log[i] = Some(b)) =>
        probe[1].st.result # Absent

\* C20 as stated: the loop returns a confirmed box as soon as three consecutive
\* successful reads differ from one another by less than 1, so it is never
\* still running after three such reads; at the deadline it returns the last
\* box read, and null only if no read succeeded.
C20_ReturnsAfterThreeAlikeReads ==
    (probe # Absent /\ probe[1].kind = "stability") =>
        LET st == probe[1].st
            ok == Successful(probe[1].log)
        IN /\ ~st.returned => ~LastThreeAlike(ok)
           /\ st.confirmed => (LastThreeAlike(ok) /\ st.result = ok[Len(ok)])
           /\ (st.returned /\ ~st.confirmed) =>
                 st.result = (IF ok = << >> THEN Absent ELSE ok[Len(ok)])

\* C20, amended: the loop returns a confirmed box as soon as three successive
\* successful reads have each differed by less than 1 (in x, y, width and
\* height) from the successful read before them, that is at the fourth of four
\* such reads, failed reads in between not counting; a read that differs by 1
\* or more restarts the count; at the deadline it returns the last box read,
\* and null only if no read succeeded.
C20_ReturnsAfterThreeCloseSteps ==
    (probe # Absent /\ probe[1].kind = "stability") =>
        LET st == probe[1].st
            ok == Successful(probe[1].log)
        IN /\ ~st.returned => ~LastStepsClose(ok, 3)
           /\ ~st.returned =>
                 \A k \in 0 .. 2 : (st.stableCount = k) <=>
                     (LastStepsClose(ok, k) /\ ~LastStepsClose(ok, k + 1)) \/ (k = 0 /\ ok = << >>)
           /\ st.confirmed => (LastStepsClose(ok, 3) /\ st.result = ok[Len(ok)])
           /\ (st.returned /\ ~st.confirmed) =>
                 st.result = (IF ok = << >> THEN Absent ELSE ok[Len(ok)])

\* A confirmed box was returned at the fourth successful read, a failed read
\* lying between them and the first and the last box a full 1.2 apart.
C20_Witness ==
    /\ probe # Absent
    /\ probe[1].kind = "stability"
    /\ probe[1].st.confirmed
    /\ Len(probe[1].log) = 5
    /\ Len(Successful(probe[1].log)) = 4
    /\ \E i, j \in 1 .. 4 :
          Abs(Successful(probe[1].log)[i][1].x - Successful(probe[1].log)[j][1].x) >= 10


(***************************************************************************)
(* Termination of click                                                    *)
(***************************************************************************)
\* C19: every click invocation eventually returns or throws: its wait loop,
\* the loop of waitForElementStability, the scroll loops and the trajectory
\* loops all come to an end.
C19_ClickTerminates ==
    (driver.op = "click" /\ pc \notin {"done", "failed"}) ~> (pc \in {"done", "failed"})

\* A click has returned after scrolling, moving the pointer and releasing the
\* button.
C19_Witness ==
    /\ driver.op = "click"
    /\ pc = "done"
    /\ driver.wheeled
    /\ driver.moved
    /\ driver.ups = 1


(***************************************************************************)
(* The activation point                                                    *)
(***************************************************************************)
\* p lies in box, at least min(8, 10% of the dimension) away from each edge.
InsideWithMargin(p, box) ==
    /\ p.x >= box.x + Min(8, box.width \div 10)
    /\ p.x <= box.x + box.width - Min(8, box.width \div 10)
    /\ p.y >= box.y + Min(8, box.height \div 10)
    /\ p.y <= box.y + box.height - Min(8, box.height \div 10)

\* C25: the point at which click presses (the destination of its final move)
\* lies inside the box read for that click, at least min(8, 10% of the
\* dimension) away from each edge.
C25_PressInsideBox ==
    (driver.op = "click" /\ pc = "click.up") =>
        InsideWithMargin(lastPos[1], call.box[1])


(***************************************************************************)
(* The legacy revision (second class ShyMouse, lines 1741-2637)            *)
(***************************************************************************)
\* The legacy engine has the fields of the primary one under the same names:
\* lastPos ({x: 0, y: 0} after construction, never absent), moveHistory,
\* attentionSpan and actionCount (config.attentionSpan, config.actionCount) and
\* cachedViewport.  The trajectory in progress is held in probe:
\*   [kind |-> "legacy", phase, start, target, isApproach, c, D, n, i, viewport,
\*    clickTarget, options]
\* phase is the call of moveToPosition being run: "move" (from move), "approach"
\* and "final" (from click), "post" (from postClickBehavior).

\* Draws of calculateControlPoints: dev = 0.15 + random * 0.25, the sign, the
\* factors c1 (0.25..0.40) and c2 (0.60..0.75) and the four factors
\* 0.5 + random * 0.5, all in 1/1000.
LegacyControlDraws ==
    { [dev |-> 150, sign |-> 1, c1 |-> 250, c2 |-> 600,
       r1x |-> 500, r1y |-> 500, r2x |-> 500, r2y |-> 500],
      [dev |-> 399, sign |-> -1, c1 |-> 399, c2 |-> 749,
       r1x |-> 999, r1y |-> 500, r2x |-> 750, r2y |-> 999] }

\* Draws of one sample: the easing variance (1/1000), the z-scores (tenths) of
\* the jitter, the draw compared with attentionSpan (1/Unit) and the z-scores of
\* the attention inaccuracy.
LegacySampleDraws ==
    { [variance |-> 0, jx |-> 0, jy |-> 0, u |-> 0, lx |-> 0, ly |-> 0],
      [variance |-> -10, jx |-> 20, jy |-> -20, u |-> 9999, lx |-> 20, ly |-> -20] }

\* Draws of click: the z-score (tenths) of calculateClickTarget, the distance
\* (20..50) and the cosine and sine (1/1000) of the angle of
\* calculateApproachTarget, the wheel turn of scrollToElement (0: none).
LegacyClickDraws ==
    { [z |-> 0, dist |-> 20, cos |-> -707, sin |-> 707, micro |-> 0],
      [z |-> 20, dist |-> 49, cos |-> 1000, sin |-> 0, micro |-> 15],
      [z |-> -20, dist |-> 49, cos |-> 0, sin |-> 1000, micro |-> 0] }

\* Draws of postClickBehavior: the behaviour, the z-score of the jitter, the
\* distance (30..100) and the cosine and sine of the angle of the move away.
LegacyPostClickDraws ==
    { [behavior |-> "pause", z |-> 0, dist |-> 30, cos |-> 1000, sin |-> 0],
      [behavior |-> "jitter", z |-> 20, dist |-> 30, cos |-> 1000, sin |-> 0],
      [behavior |-> "away", z |-> 0, dist |-> 99, cos |-> 707, sin |-> 707],
      [behavior |-> "away", z |-> 0, dist |-> 30, cos |-> -1000, sin |-> 0] }

\* Elements clicked (document coordinates), both in view of a window 400 x 300:
\* one in the middle, one close to the right edge.
LegacyBoxes == { Box(150, 100, 80, 30), Box(330, 230, 68, 60) }

\* calculateControlPoints(startX, startY, targetX, targetY, D, options).
legacyControlPoints(start, target, D, isApproach, c) ==
    LET dx == target.x - start.x
        dy == target.y - start.y
        baseDeviation == (D * c.dev) \div 1000
        deviation == IF isApproach THEN baseDeviation \div 2 ELSE baseDeviation
        length == IF D = 0 THEN 1 ELSE D
        offset(perp, r) == (c.sign * deviation * perp * r) \div (length * 1000)
    IN [p0 |-> start,
        p1 |-> Pt(start.x + (dx * c.c1) \div 1000 + offset(-dy, c.r1x),
                  start.y + (dy * c.c1) \div 1000 + offset(dx, c.r1y)),
        p2 |-> Pt(start.x + (dx * c.c2) \div 1000 + offset(-dy, c.r2x),
                  start.y + (dy * c.c2) \div 1000 + offset(dx, c.r2y)),
        p3 |-> target]

\* The i-th point of calculateBezierPoints (body of its loop): easeInOutCubic
\* with its variance, the Bezier point, the jitter that fades over the last
\* 100 px, the attention inaccuracy, and the clamp to [0, viewport.width] x
\* [0, viewport.height].  The target has no box here, so handleOvershoot adds
\* nothing (isRandomTarget).
legacyBezierPoint(tr, i, s, att) ==
    LET ctl == legacyControlPoints(tr.start, tr.target, tr.D, tr.isApproach, tr.c)
        linearT == (i * TScale) \div tr.n
        easedT == cubicEase(clamp(linearT + s.variance, 0, TScale))
        point == getBezierPoint(easedT, ctl.p0, ctl.p1, ctl.p2, ctl.p3)
        distanceToEnd == ((TScale - easedT) * tr.D) \div TScale
        distanceBasedJitter == (1500 * Min(100, distanceToEnd)) \div 100
        inattentive == att < 9500 /\ s.u > att
        nx == Gauss(s.jx, distanceBasedJitter) + (IF inattentive THEN Gauss(s.lx, 3000) ELSE 0)
        ny == Gauss(s.jy, distanceBasedJitter) + (IF inattentive THEN Gauss(s.ly, 3000) ELSE 0)
    IN Pt(clamp(point.x + RoundDiv(nx, 1000), 0, tr.viewport.width),
          clamp(point.y + RoundDiv(ny, 1000), 0, tr.viewport.height))

\* getViewport(), legacy: the cached value (kept five minutes, longer than the
\* runs followed here), else window.innerWidth / innerHeight, else the fallback
\* 1920 x 1080 when page.evaluate rejects.
legacyGetViewport(fails) ==
    IF cachedViewport # Absent THEN cachedViewport[1]
    ELSE IF fails THEN FallbackViewport ELSE readViewport(page)

\* The head of moveToPosition(targetX, targetY, options): the viewport, the
\* start position (lastPos, here from, or the draw of initializePosition when
\* that is {0, 0}) and the
\* number of points of calculateBezierPoints (W = 100: no box is passed).
\* r = [c, init, fails]; numPoints is Absent unless the caller gives
\* options.numPoints.
legacyMoveToPosition(phase, from, target, isApproach, numPoints, clickTarget, r) ==
    LET viewport == legacyGetViewport(r.fails)
        start == IF from = Pt(0, 0)
                 THEN Pt((viewport.width * (300 + (r.init * 400) \div 1000)) \div 1000,
                         (viewport.height * (300 + (r.init * 400) \div 1000)) \div 1000)
                 ELSE from
        D == calculateDistance(start, target)
        ID == Log2(D + defaultTargetWidth, defaultTargetWidth)
        base == Max(15, RoundDiv(12 * ID, 1024))
        fatigued == IF config.fatigueEnabled /\ actionCount > config.fatigueThreshold
                    THEN RoundDiv(base * Min(100 + (actionCount - config.fatigueThreshold) * 2,
                                             150), 100)
                    ELSE base
    IN [kind |-> "legacy", phase |-> phase, start |-> start, target |-> target,
        isApproach |-> isApproach, c |-> r.c, D |-> D,
        n |-> IF numPoints = Absent THEN fatigued ELSE numPoints[1], i |-> 0,
        viewport |-> viewport, clickTarget |-> clickTarget]

\* Draws of one call of moveToPosition; the viewport read fails on a flaky page
\* only.
LegacyMoveDraws ==
    [c : LegacyControlDraws, init : {0, 999},
     fails : IF page.flaky THEN BOOLEAN ELSE {FALSE}]

\* The state left by the head of moveToPosition.
LegacyStart(tr) ==
    /\ probe' = << tr >>
    /\ lastPos' = Some(tr.start)
    /\ cachedViewport' = IF cachedViewport = Absent /\ tr.viewport = FallbackViewport
                         THEN Absent ELSE Some(tr.viewport)
    /\ pc' = "legacy.moving"

\* updateActionCount(), legacy: the count, the rest every 50 actions and the
\* attention lost with every action.
legacyUpdateActionCount ==
    LET n == actionCount + 1
        rested == n % 50 = 0
        att == IF rested THEN Min(Unit, attentionSpan + 500) ELSE attentionSpan
    IN /\ actionCount' = IF rested THEN Max(0, n - 20) ELSE n
       /\ attentionSpan' = Max(8500, att - 10)

\* move(options): a target 50 px inside the viewport, then moveToPosition.
LegacyCallMove ==
    /\ pc = "idle"
    /\ opsDone.moves + opsDone.clicks < MaxOps
    /\ \E r \in LegacyMoveDraws, t \in {0, 999} :
          LET viewport == legacyGetViewport(r.fails)
              target == Pt(50 + (t * (viewport.width - 100)) \div 1000,
                           50 + ((999 - t) * (viewport.height - 100)) \div 1000)
          IN LegacyStart(legacyMoveToPosition("move", lastPos[1], target, FALSE, Absent,
                                              target, r))
    /\ driver' = NewDriver("legacy.move")
    /\ opsDone' = [opsDone EXCEPT !.moves = @ + 1]
    /\ UNCHANGED <<config, fatigueVars, moveHistory, viewportCacheAge, page, mv, call>>

\* click(element, options) up to its first moveToPosition: the box (an element
\* without one makes click throw), the viewport, scrollToElement for an element
\* in view (at most a small wheel turn), calculateClickTarget and
\* calculateApproachTarget.  k in LegacyClickDraws.
LegacyCallClick ==
    /\ pc = "idle"
    /\ opsDone.moves + opsDone.clicks < MaxOps
    /\ opsDone' = [opsDone EXCEPT !.clicks = @ + 1]
    /\ \E b \in {Absent} \cup { Some(boundingBox(Element(e, Absent), page)) : e \in LegacyBoxes } :
          IF b = Absent
          THEN /\ pc' = "failed"
               /\ driver' = [NewDriver("legacy.click") EXCEPT
                                !.error = "Element has no bounding box"]
               /\ UNCHANGED <<lastPos, cachedViewport, page, probe>>
          ELSE \E r \in LegacyMoveDraws, k \in LegacyClickDraws :
                  LET box == b[1]
                      viewport == legacyGetViewport(r.fails)
                      inView ==
                          /\ box.y < viewport.scrollY + viewport.height + 50
                          /\ box.y + box.height > viewport.scrollY - 50
                          /\ box.x < viewport.width + 50
                          /\ box.x + box.width > -50
                      clickTarget ==
                          Pt(clamp(box.x + box.width \div 2
                                       + RoundDiv(Gauss(k.z, 250 * box.width) * 7, 10000),
                                   box.x + 5, box.x + box.width - 5),
                             clamp(box.y + box.height \div 2
                                       + RoundDiv(Gauss(-k.z, 250 * box.height) * 7, 10000),
                                   box.y + 5, box.y + box.height - 5))
                      approachTarget == Pt(clickTarget.x + RoundDiv(k.cos * k.dist, 1000),
                                           clickTarget.y + RoundDiv(k.sin * k.dist, 1000))
                  IN /\ inView
                     /\ LegacyStart(legacyMoveToPosition("approach", lastPos[1],
                                                         approachTarget, TRUE, Absent,
                                                         clickTarget, r))
                     /\ page' = [page EXCEPT !.scrollY =
                                    clamp(@ + k.micro, 0, page.documentHeight - page.height)]
                     /\ driver' = IF k.micro = 0 THEN NewDriver("legacy.click")
                                  ELSE MouseWheel(NewDriver("legacy.click"), k.micro)
    /\ UNCHANGED <<config, fatigueVars, moveHistory, viewportCacheAge, mv, call>>

\* One iteration of the loop of moveToPosition: page.mouse.move(point.x,
\* point.y); a rejected call is logged and the loop goes on.
LegacySample ==
    /\ pc = "legacy.moving"
    /\ probe[1].i < probe[1].n
    /\ \E s \in LegacySampleDraws :
          driver' = IF page.moveFails THEN driver
                    ELSE MouseMove(driver,
                                   legacyBezierPoint(probe[1], probe[1].i + 1, s, attentionSpan),
                                   probe[1].viewport)
    /\ probe' = << [probe[1] EXCEPT !.i = @ + 1] >>
    /\ UNCHANGED <<config, fatigueVars, motionVars, cacheVars, page, pc, mv, opsDone, call>>

\* The end of moveToPosition (lastPos, addToHistory) and what its caller does
\* next: move counts the action; click moves on to the click point with 3 to 5
\* points, presses and releases, runs postClickBehavior (a pause, a jitter of
\* 3 points or a move 30..100 px away, both clamped to [0, viewport.width] x
\* [0, viewport.height]), then sets lastPos to the click point and counts the
\* action.
LegacyContinue ==
    /\ pc = "legacy.moving"
    /\ probe[1].i = probe[1].n
    /\ LET tr == probe[1]
           history == addToHistory(moveHistory, tr.target)
           finish(pos) ==
               /\ lastPos' = Some(pos)
               /\ legacyUpdateActionCount
               /\ pc' = "done"
               /\ probe' = << [tr EXCEPT !.phase = "returned"] >>
               /\ UNCHANGED cachedViewport
       IN /\ moveHistory' = history
          /\ CASE tr.phase = "move" ->
                     /\ finish(tr.target)
                     /\ UNCHANGED driver
               [] tr.phase = "approach" ->
                     /\ \E r \in LegacyMoveDraws, np \in {0, 999} :
                           LegacyStart(legacyMoveToPosition("final", tr.target,
                                           tr.clickTarget, FALSE,
                                           Some(Max(3, RoundDiv(np * 5, 1000))),
                                           tr.clickTarget, r))
                     /\ UNCHANGED <<driver, actionCount, attentionSpan>>
               [] tr.phase = "final" ->
                     \E r \in LegacyMoveDraws, q \in LegacyPostClickDraws :
                        LET pressed == [driver EXCEPT !.downs = @ + 1, !.ups = @ + 1,
                                                      !.downReturned = TRUE,
                                                      !.upReturned = TRUE]
                            viewport == tr.viewport
                            raw == IF q.behavior = "jitter"
                                   THEN Pt(tr.clickTarget.x + RoundDiv(Gauss(q.z, 8000), 1000),
                                           tr.clickTarget.y + RoundDiv(Gauss(-q.z, 8000), 1000))
                                   ELSE Pt(tr.clickTarget.x + RoundDiv(q.cos * q.dist, 1000),
                                           tr.clickTarget.y + RoundDiv(q.sin * q.dist, 1000))
                            target == Pt(clamp(raw.x, 0, viewport.width),
                                         clamp(raw.y, 0, viewport.height))
                            next == legacyMoveToPosition("post", tr.target, target, FALSE,
                                        IF q.behavior = "jitter" THEN Some(3) ELSE Absent,
                                        tr.clickTarget, r)
                        IN /\ driver' = pressed
                           /\ IF q.behavior = "pause"
                              THEN finish(tr.clickTarget)
                              ELSE /\ LegacyStart(next)
                                   /\ UNCHANGED <<actionCount, attentionSpan>>
               [] tr.phase = "post" ->
                     /\ finish(tr.clickTarget)
                     /\ UNCHANGED driver
          /\ UNCHANGED <<config, fatigueMultiplier, viewportCacheAge, page, mv, opsDone, call>>

InitLegacy ==
    /\ config = DefaultConfig
    /\ actionCount = 0
    /\ attentionSpan \in {8800, 9600}
    /\ fatigueMultiplier = Unit
    /\ lastPos = Some(Pt(0, 0))
    /\ moveHistory = << >>
    /\ cachedViewport = Absent
    /\ viewportCacheAge = viewportCacheDuration
    /\ page = Window(400, 300, 0, 1200, FALSE)
    /\ pc = "idle"
    /\ mv = NoMove
    /\ driver = NewDriver("idle")
    /\ opsDone = [moves |-> 0, clicks |-> 0]
    /\ probe = << >>
    /\ call = NoCall

NextLegacy == LegacyCallMove \/ LegacyCallClick \/ LegacySample \/ LegacyContinue \/ Return

SpecLegacy == InitLegacy /\ [][NextLegacy]_vars

\* C39: in the legacy revision every coordinate passed to page.mouse.move by
\* moveToPosition, during click, move and the post-click behaviour, lies within
\* [0, viewport.width - 1] x [0, viewport.height - 1].
C39_LegacySamplesInsideViewport ==
    (driver.op \in {"legacy.click", "legacy.move"} /\ driver.lastMove # Absent) =>
        InViewport(driver.lastMove[1].p, driver.lastMove[1].viewport)
====
